---- MODULE Spec2Model ----
(***************************************************************************)
(* Model of the App Configuration client: the segment matcher, the rollout *)
(* gate, feature/property evaluation, the configuration snapshot and the   *)
(* client with its background refresh thread.                              *)
(***************************************************************************)
EXTENDS Integers, Sequences, FiniteSets, TLC

(***************************************************************************)
(* Bounds of the model.                                                    *)
(***************************************************************************)
MaxSegmentRules == 2
MaxValues == 2
MaxTargetingRules == 2
MaxReads == 2

(***************************************************************************)
(* Strings.  A string is a TLA+ string; Chars gives its characters, so     *)
(* that contains / starts_with / ends_with and the parsers are computed.   *)
(***************************************************************************)
Chars(s) ==
    CASE s = "heinz" -> <<"h", "e", "i", "n", "z">>
      [] s = "he"    -> <<"h", "e">>
      [] s = "nz"    -> <<"n", "z">>
      [] s = "ein"   -> <<"e", "i", "n">>
      [] s = "42"    -> <<"4", "2">>
      [] s = "42.0"  -> <<"4", "2", ".", "0">>
      [] s = "41"    -> <<"4", "1">>
      [] s = "true"  -> <<"t", "r", "u", "e">>
      [] s = "false" -> <<"f", "a", "l", "s", "e">>
      [] s = "abc"   -> <<"a", "b", "c">>
      [] s = ""      -> << >>

\* str::contains
str_contains(data, pat) ==
    LET d == Chars(data)
        p == Chars(pat)
    IN  \E i \in 0..Len(d) :
            /\ i + Len(p) <= Len(d)
            /\ SubSeq(d, i + 1, i + Len(p)) = p

\* str::starts_with
str_starts_with(data, pat) ==
    LET d == Chars(data)
        p == Chars(pat)
    IN  Len(p) <= Len(d) /\ SubSeq(d, 1, Len(p)) = p

\* str::ends_with
str_ends_with(data, pat) ==
    LET d == Chars(data)
        p == Chars(pat)
    IN  Len(p) <= Len(d) /\ SubSeq(d, Len(d) - Len(p) + 1, Len(d)) = p

\* str::parse::<bool>: exactly "true" and "false" parse.
parse_bool(s) ==
    CASE s = "true"  -> [ok |-> TRUE, b |-> TRUE]
      [] s = "false" -> [ok |-> TRUE, b |-> FALSE]
      [] OTHER       -> [ok |-> FALSE, b |-> FALSE]

\* str::parse::<f64>: decimal literals parse, "42" and "42.0" to the same number.
parse_f64(s) ==
    CASE s = "42"   -> [ok |-> TRUE, n |-> 42]
      [] s = "42.0" -> [ok |-> TRUE, n |-> 42]
      [] s = "41"   -> [ok |-> TRUE, n |-> 41]
      [] OTHER      -> [ok |-> FALSE, n |-> 0]

(***************************************************************************)
(* entity.rs: AttrValue.                                                   *)
(***************************************************************************)
AttrNumeric(n) == [type |-> "Numeric", num |-> n, str |-> "", bool |-> FALSE]
AttrString(s) == [type |-> "String", num |-> 0, str |-> s, bool |-> FALSE]
AttrBoolean(b) == [type |-> "Boolean", num |-> 0, str |-> "", bool |-> b]

(***************************************************************************)
(* models.rs: ConfigValue (a JSON value), TargetingRule, Segment.          *)
(***************************************************************************)
Number(n) == [kind |-> "Number", num |-> n, str |-> "", bool |-> FALSE]
String(s) == [kind |-> "String", num |-> 0, str |-> s, bool |-> FALSE]
Bool(b) == [kind |-> "Bool", num |-> 0, str |-> "", bool |-> b]

\* A variant of is_default for which no value is the sentinel.
never_default(v) == FALSE

is_default(v) == v.kind = "String" /\ v.str = "$default"

Some(v) == [some |-> TRUE, v |-> v]
None == [some |-> FALSE, v |-> Number(0)]

SegmentRule(a, op, vs) == [attribute_name |-> a, operator |-> op, values |-> vs]
Segment(id, rs) == [segment_id |-> id, rules |-> rs]
Segments(ids) == [segments |-> ids]
TargetingRule(groups, v, o, rp) ==
    [rules |-> groups, value |-> v, order |-> o, rollout_percentage |-> rp]

(***************************************************************************)
(* segment_evaluation: results.                                            *)
(***************************************************************************)
NoErr ==
    [kind |-> "none", segment_id |-> "", attribute_name |-> "",
     operator |-> "", value |-> "", detail |-> ""]

\* SegmentEvaluationError::SegmentEvaluationFailed, built by
\* From<(CheckOperatorErrorDetail, &Segment, &SegmentRule, &Value)>.
SegmentEvaluationFailed(detail, segment, rule, value) ==
    [kind |-> "SegmentEvaluationFailed", segment_id |-> segment.segment_id,
     attribute_name |-> rule.attribute_name, operator |-> rule.operator,
     value |-> value, detail |-> detail]

SegmentIdNotFound(id) ==
    [kind |-> "SegmentIdNotFound", segment_id |-> id, attribute_name |-> "",
     operator |-> "", value |-> "", detail |-> ""]

OkB(b) == [ok |-> TRUE, b |-> b, err |-> NoErr]
ErrB(e) == [ok |-> FALSE, b |-> FALSE, err |-> e]

OpOk(b) == [ok |-> TRUE, b |-> b, detail |-> ""]
OpErr(d) == [ok |-> FALSE, b |-> FALSE, detail |-> d]

\* `Ok(*data == reference_value.parse::<bool>()?)`
is_boolean(data, reference_value) ==
    LET p == parse_bool(reference_value)
    IN  IF p.ok THEN OpOk(data = p.b) ELSE OpErr("BooleanExpected")

\* `Ok(*data <op> reference_value.parse()?)`, cmp the comparison as a string.
compare_numeric(data, cmp, reference_value) ==
    LET p == parse_f64(reference_value)
    IN  IF ~p.ok THEN OpErr("NumberExpected")
        ELSE OpOk(CASE cmp = "==" -> data = p.n
                    [] cmp = ">"  -> data > p.n
                    [] cmp = "<"  -> data < p.n
                    [] cmp = ">=" -> data >= p.n
                    [] cmp = "<=" -> data <= p.n)

check_operator(attribute_value, operator, reference_value) ==
    CASE operator = "is" ->
            (CASE attribute_value.type = "String" ->
                    OpOk(attribute_value.str = reference_value)
               [] attribute_value.type = "Boolean" ->
                    is_boolean(attribute_value.bool, reference_value)
               [] attribute_value.type = "Numeric" ->
                    compare_numeric(attribute_value.num, "==", reference_value))
      [] operator = "contains" ->
            IF attribute_value.type = "String"
            THEN OpOk(str_contains(attribute_value.str, reference_value))
            ELSE OpErr("StringExpected")
      [] operator = "startsWith" ->
            IF attribute_value.type = "String"
            THEN OpOk(str_starts_with(attribute_value.str, reference_value))
            ELSE OpErr("StringExpected")
      [] operator = "endsWith" ->
            IF attribute_value.type = "String"
            THEN OpOk(str_ends_with(attribute_value.str, reference_value))
            ELSE OpErr("StringExpected")
      [] operator = "greaterThan" ->
            IF attribute_value.type = "Numeric"
            THEN compare_numeric(attribute_value.num, ">", reference_value)
            ELSE OpErr("EntityAttrNotANumber")
      [] operator = "lesserThan" ->
            IF attribute_value.type = "Numeric"
            THEN compare_numeric(attribute_value.num, "<", reference_value)
            ELSE OpErr("EntityAttrNotANumber")
      [] operator = "greaterThanEquals" ->
            IF attribute_value.type = "Numeric"
            THEN compare_numeric(attribute_value.num, ">=", reference_value)
            ELSE OpErr("EntityAttrNotANumber")
      [] operator = "lesserThanEquals" ->
            IF attribute_value.type = "Numeric"
            THEN compare_numeric(attribute_value.num, "<=", reference_value)
            ELSE OpErr("EntityAttrNotANumber")
      [] OTHER -> OpErr("OperatorNotImplemented")


\* A variant of the arm for a failed check: the search ends without a candidate.
failed_check_skipped(detail, segment, rule, value) == OkB(FALSE)

\* `Err(e) => Some(Err((e, segment, rule, value).into()))`
failed_check(detail, segment, rule, value) ==
    ErrB(SegmentEvaluationFailed(detail, segment, rule, value))

\* The `find_map` over rule.values of belong_to_segment, from the i-th value:
\* the first value that matches gives Ok(true), the first whose check fails
\* gives the error, and Ok(false) stands for "no candidate".
RECURSIVE find_candidate(_, _, _, _)

\* The closure of the find_map on the result r of check_operator.
candidate_step(r, attr_value, segment, rule, i) ==
    IF ~r.ok THEN failed_check(r.detail, segment, rule, rule.values[i])
    ELSE IF r.b THEN OkB(TRUE)
    ELSE find_candidate(attr_value, segment, rule, i + 1)

find_candidate(attr_value, segment, rule, i) ==
    IF i > Len(rule.values) THEN OkB(FALSE)
    ELSE candidate_step(check_operator(attr_value, rule.operator, rule.values[i]),
                        attr_value, segment, rule, i)

\* A variant that reports a missing attribute as a failed evaluation.
missing_attribute_is_error(segment, rule) ==
    ErrB(SegmentEvaluationFailed("AttributeNotFound", segment, rule, ""))

\* `if attr_value.is_none() { return Ok(false); }`
missing_attribute(segment, rule) == OkB(FALSE)

\* The loop of belong_to_segment over segment.rules, from the i-th rule.
RECURSIVE belong_from(_, _, _)

\* `match candidate { None => false, Some(Ok(())) => true, Some(Err(e)) => return Err(e) }`
\* and `if !rule_result { return Ok(false) }`
rule_step(candidate, segment, attrs, i) ==
    IF ~candidate.ok THEN candidate
    ELSE IF ~candidate.b THEN OkB(FALSE)
    ELSE belong_from(segment, attrs, i + 1)

belong_from(segment, attrs, i) ==
    IF i > Len(segment.rules) THEN OkB(TRUE)
    ELSE IF segment.rules[i].attribute_name \notin DOMAIN attrs
         THEN missing_attribute(segment, segment.rules[i])
         ELSE rule_step(find_candidate(attrs[segment.rules[i].attribute_name], segment,
                                       segment.rules[i], 1),
                        segment, attrs, i)

belong_to_segment(segment, attrs) == belong_from(segment, attrs, 1)

\* The loop of segment_applies_to_entity over segment_ids, from the i-th id.
RECURSIVE segment_applies_from(_, _, _, _)

\* `if belong_to_segment(segment, entity.get_attributes())? { return Ok(true) }`
segment_step(applies, segments, segment_ids, entity, i) ==
    IF ~applies.ok THEN applies
    ELSE IF applies.b THEN OkB(TRUE)
    ELSE segment_applies_from(segments, segment_ids, entity, i + 1)

segment_applies_from(segments, segment_ids, entity, i) ==
    IF i > Len(segment_ids) THEN OkB(FALSE)
    ELSE IF segment_ids[i] \notin DOMAIN segments
         THEN ErrB(SegmentIdNotFound(segment_ids[i]))
         ELSE segment_step(belong_to_segment(segments[segment_ids[i]], entity.attributes),
                           segments, segment_ids, entity, i)

segment_applies_to_entity(segments, segment_ids, entity) ==
    segment_applies_from(segments, segment_ids, entity, 1)

\* The loop of targeting_rule_applies_to_entity over targeting_rule.rules.
RECURSIVE targeting_rule_applies_from(_, _, _, _)

\* `if rule_applies { return Ok(true) }` after the `?`
targeting_step(rule_applies, segments, targeting_rule, entity, i) ==
    IF ~rule_applies.ok THEN rule_applies
    ELSE IF rule_applies.b THEN OkB(TRUE)
    ELSE targeting_rule_applies_from(segments, targeting_rule, entity, i + 1)

targeting_rule_applies_from(segments, targeting_rule, entity, i) ==
    IF i > Len(targeting_rule.rules) THEN OkB(FALSE)
    ELSE targeting_step(
             segment_applies_to_entity(segments, targeting_rule.rules[i].segments, entity),
             segments, targeting_rule, entity, i)

targeting_rule_applies_to_entity(segments, targeting_rule, entity) ==
    targeting_rule_applies_from(segments, targeting_rule, entity, 1)

\* Vec::sort_by(|a, b| a.order.cmp(&b.order)): a stable sort, here by insertion.
RECURSIVE insert_by_order(_, _)
insert_by_order(sorted, r) ==
    IF sorted = << >> THEN <<r>>
    ELSE IF sorted[Len(sorted)].order <= r.order THEN Append(sorted, r)
    ELSE Append(insert_by_order(SubSeq(sorted, 1, Len(sorted) - 1), r),
                sorted[Len(sorted)])

RECURSIVE sort_from(_, _, _)
sort_from(rules, sorted, i) ==
    IF i > Len(rules) THEN sorted
    ELSE sort_from(rules, insert_by_order(sorted, rules[i]), i + 1)

\* A variant that leaves the rules in the order of the source document.
unsorted(targeting_rules) == targeting_rules

sort_by_order(targeting_rules) == sort_from(targeting_rules, << >>, 1)

NoRule == TargetingRule(<< >>, Number(0), 0, None)
FoundRule(r) == [ok |-> TRUE, some |-> TRUE, rule |-> r, err |-> NoErr]
FoundNone == [ok |-> TRUE, some |-> FALSE, rule |-> NoRule, err |-> NoErr]
FoundErr(e) == [ok |-> FALSE, some |-> FALSE, rule |-> NoRule, err |-> e]

\* The loop of find_applicable_segment_rule_for_entity over the sorted rules.
RECURSIVE find_from(_, _, _, _)

\* A variant of the loop's body that goes on to the next rule after an error.
found_step_skipping_errors(applies, segments, targeting_rules, entity, i) ==
    IF applies.ok /\ applies.b THEN FoundRule(targeting_rules[i])
    ELSE find_from(segments, targeting_rules, entity, i + 1)

\* `if targeting_rule_applies_to_entity(..)? { return Ok(Some(targeting_rule)) }`
found_step(applies, segments, targeting_rules, entity, i) ==
    IF ~applies.ok THEN FoundErr(applies.err)
    ELSE IF applies.b THEN FoundRule(targeting_rules[i])
    ELSE find_from(segments, targeting_rules, entity, i + 1)

find_from(segments, targeting_rules, entity, i) ==
    IF i > Len(targeting_rules) THEN FoundNone
    ELSE found_step(targeting_rule_applies_to_entity(segments, targeting_rules[i], entity),
                    segments, targeting_rules, entity, i)

find_applicable_segment_rule_for_entity(segments, segment_rules, entity) ==
    find_from(segments, sort_by_order(segment_rules), entity, 1)


(***************************************************************************)
(* The rollout gate.  hash is murmur3_32 with seed 0 of the tag            *)
(* "<entity id>:<feature id>", a 32-bit value held as two 16-bit halves.   *)
(***************************************************************************)
Half == 256 * 256

U32(hi, lo) == [hi |-> hi, lo |-> lo]

hash(entity_id, feature_id) ==
    CASE entity_id = "a1" /\ feature_id = "f1" -> U32(45131, 55887)
      [] entity_id = "a2" /\ feature_id = "f1" -> U32(19615, 65531)
      [] entity_id = "a1" /\ feature_id = "f2" -> U32(49234, 55787)
      [] entity_id = "a2" /\ feature_id = "f2" -> U32(57432, 21184)
      [] entity_id = "u4900973149" /\ feature_id = "f1" -> U32(0, 0)
      [] entity_id = "u8610814110" /\ feature_id = "f1" -> U32(0, 1)
      [] entity_id = "u1504249560" /\ feature_id = "f1" -> U32(655, 23592)
      [] entity_id = "u4181331748" /\ feature_id = "f1" -> U32(655, 23593)
      [] entity_id = "u4511490825" /\ feature_id = "f1" -> U32(32768, 0)
      [] entity_id = "u4457404905" /\ feature_id = "f1" -> U32(64225, 18350)
      [] entity_id = "u1017327862" /\ feature_id = "f1" -> U32(64880, 41943)
      [] entity_id = "u446238073" /\ feature_id = "f1" -> U32(65535, 65534)
      [] entity_id = "u5147482946" /\ feature_id = "f1" -> U32(65535, 65535)
      [] OTHER -> U32(0, 0)

\* random_value: (f64::from(hash) / f64::from(u32::MAX) * 100.0) as u32,
\* the largest k with k * (2^32 - 1) <= 100 * hash.
random_value(h) ==
    LET fits(k) ==
            LET low == 100 * h.lo + k
            IN  100 * h.hi + (low \div Half) >= k * Half
    IN  CHOOSE k \in 0..100 : fits(k) /\ (k = 100 \/ ~fits(k + 1))

\* A variant of the gate without the test for 100.
should_rollout_below(rollout_percentage, entity, feature_id) ==
    random_value(hash(entity.id, feature_id)) < rollout_percentage

should_rollout(rollout_percentage, entity, feature_id) ==
    \/ rollout_percentage = 100
    \/ random_value(hash(entity.id, feature_id)) < rollout_percentage

(***************************************************************************)
(* client/feature_snapshot.rs: FeatureSnapshot.                            *)
(***************************************************************************)
Feature(id, kind, en, ev, dv, rp, rules) ==
    [feature_id |-> id, kind |-> kind, enabled |-> en, enabled_value |-> ev,
     disabled_value |-> dv, rollout_percentage |-> rp, segment_rules |-> rules]

Property(id, kind, v, rules) ==
    [property_id |-> id, kind |-> kind, value |-> v, segment_rules |-> rules]

Entity(id, attributes) == [id |-> id, attributes |-> attributes]

\* Result<ConfigValue>; "panic" is an evaluation that unwinds.
EvalOk(v) == [status |-> "ok", value |-> v, err |-> NoErr]
EvalErr(e) == [status |-> "err", value |-> Number(0), err |-> e]
EvalPanic(msg) ==
    [status |-> "panic", value |-> Number(0),
     err |-> [NoErr EXCEPT !.kind = "panic", !.detail = msg]]

use_rollout_percentage_to_get_value_from_feature_directly(feature, entity) ==
    IF should_rollout(feature.rollout_percentage, entity, feature.feature_id)
    THEN EvalOk(feature.enabled_value)
    ELSE EvalOk(feature.disabled_value)

\* ConfigValue::as_u64
as_u64(v) == IF v.kind = "Number" /\ v.num >= 0 THEN Some(v) ELSE None

\* A variant of the arm that serves the rule's value without a rollout gate.
apply_segment_rule_ungated(feature, segment_rule, entity) ==
    IF is_default(segment_rule.value)
    THEN EvalOk(feature.enabled_value)
    ELSE EvalOk(segment_rule.value)

\* A variant of the arm in which an entity that the rule's gate excludes is
\* passed on to the feature's own gate.
apply_segment_rule_falling_through(feature, segment_rule, entity) ==
    IF ~segment_rule.rollout_percentage.some
    THEN EvalPanic("Rollout value is missing.")
    ELSE LET value == segment_rule.rollout_percentage.v
         IN  IF ~is_default(value) /\ ~as_u64(value).some
             THEN EvalPanic("Rollout value is not u64.")
             ELSE LET rollout_percentage ==
                          IF is_default(value) THEN feature.rollout_percentage
                          ELSE value.num
                  IN  IF should_rollout(rollout_percentage, entity, feature.feature_id)
                      THEN (IF is_default(segment_rule.value)
                            THEN EvalOk(feature.enabled_value)
                            ELSE EvalOk(segment_rule.value))
                      ELSE use_rollout_percentage_to_get_value_from_feature_directly(
                               feature, entity)

\* The arm `Some(segment_rule)` of evaluate_feature_for_entity.
apply_segment_rule(feature, segment_rule, entity) ==
    IF ~segment_rule.rollout_percentage.some
    THEN EvalPanic("Rollout value is missing.")
    ELSE LET value == segment_rule.rollout_percentage.v
         IN  IF ~is_default(value) /\ ~as_u64(value).some
             THEN EvalPanic("Rollout value is not u64.")
             ELSE LET rollout_percentage ==
                          IF is_default(value) THEN feature.rollout_percentage
                          ELSE value.num
                  IN  IF should_rollout(rollout_percentage, entity, feature.feature_id)
                      THEN (IF is_default(segment_rule.value)
                            THEN EvalOk(feature.enabled_value)
                            ELSE EvalOk(segment_rule.value))
                      ELSE EvalOk(feature.disabled_value)

\* The match on the rule found, of evaluate_feature_for_entity.
apply_found(found, feature, entity) ==
    IF ~found.ok THEN EvalErr(found.err)
    ELSE IF found.some THEN apply_segment_rule(feature, found.rule, entity)
    ELSE use_rollout_percentage_to_get_value_from_feature_directly(feature, entity)

\* A variant without the early return: the rules are always searched.
evaluate_enabled_feature_always_matching(feature, segments, entity) ==
    apply_found(
        find_applicable_segment_rule_for_entity(segments, feature.segment_rules, entity),
        feature, entity)

\* evaluate_feature_for_entity after the test of feature.enabled.
evaluate_enabled_feature(feature, segments, entity) ==
    IF feature.segment_rules = << >> \/ DOMAIN entity.attributes = {}
    THEN use_rollout_percentage_to_get_value_from_feature_directly(feature, entity)
    ELSE apply_found(
             find_applicable_segment_rule_for_entity(segments, feature.segment_rules, entity),
             feature, entity)

\* A variant without the early return for a disabled feature.
evaluate_feature_ignoring_enabled(feature, segments, entity) ==
    evaluate_enabled_feature(feature, segments, entity)

evaluate_feature_for_entity(feature, segments, entity) ==
    IF ~feature.enabled THEN EvalOk(feature.disabled_value)
    ELSE evaluate_enabled_feature(feature, segments, entity)

\* The match on the declared kind of get_value: as_number / as_bool / as_str,
\* or a ProtocolError.
ProtocolError == [NoErr EXCEPT !.kind = "ProtocolError"]
Value(type, v) == [status |-> "ok", type |-> type, value |-> v, err |-> NoErr]
ValueErr(status, e) == [status |-> status, type |-> "", value |-> Number(0), err |-> e]

coerce(kind, model_value) ==
    CASE kind = "Numeric" ->
            IF model_value.kind = "Number" THEN Value("Numeric", model_value)
            ELSE ValueErr("err", ProtocolError)
      [] kind = "Boolean" ->
            IF model_value.kind = "Bool" THEN Value("Boolean", model_value)
            ELSE ValueErr("err", ProtocolError)
      [] kind = "String" ->
            IF model_value.kind = "String" THEN Value("String", model_value)
            ELSE ValueErr("err", ProtocolError)

\* The match of get_value on the evaluation's result.
value_of(kind, model_value) ==
    IF model_value.status # "ok" THEN ValueErr(model_value.status, model_value.err)
    ELSE coerce(kind, model_value.value)

\* FeatureSnapshot::get_value
get_value(feature, segments, entity) ==
    value_of(feature.kind, evaluate_feature_for_entity(feature, segments, entity))

\* client/feature.rs, Feature::get_value: the match on the declared kind.  The
\* Numeric arm wraps the resolved value as it is, the other arms use
\* as_bool / as_str or a ProtocolError.
feature_coerce(kind, model_value) ==
    CASE kind = "Numeric" -> Value("Numeric", model_value)
      [] kind = "Boolean" ->
            IF model_value.kind = "Bool" THEN Value("Boolean", model_value)
            ELSE ValueErr("err", ProtocolError)
      [] kind = "String" ->
            IF model_value.kind = "String" THEN Value("String", model_value)
            ELSE ValueErr("err", ProtocolError)

feature_value_of(kind, model_value) ==
    IF model_value.status # "ok" THEN ValueErr(model_value.status, model_value.err)
    ELSE feature_coerce(kind, model_value.value)

\* client/feature.rs, Feature::get_value
feature_get_value(feature, segments, entity) ==
    feature_value_of(feature.kind, evaluate_feature_for_entity(feature, segments, entity))

\* The match on the rule found, of the property's evaluation.
property_found(found, property) ==
    IF ~found.ok THEN EvalErr(found.err)
    ELSE IF found.some /\ ~is_default(found.rule.value) THEN EvalOk(found.rule.value)
    ELSE EvalOk(property.value)

\* PropertySnapshot::evaluate_feature_for_entity
evaluate_property_for_entity(property, segments, entity) ==
    IF property.segment_rules = << >> \/ DOMAIN entity.attributes = {}
    THEN EvalOk(property.value)
    ELSE property_found(
             find_applicable_segment_rule_for_entity(segments, property.segment_rules, entity),
             property)

\* PropertySnapshot::get_value
property_get_value(property, segments, entity) ==
    value_of(property.kind, evaluate_property_for_entity(property, segments, entity))


(***************************************************************************)
(* State of an evaluation: the inputs of one call and its results.         *)
(***************************************************************************)
VARIABLES e_pc, e_feature, e_property, e_segments, e_entity, e_out

evars == <<e_pc, e_feature, e_property, e_segments, e_entity, e_out>>

(***************************************************************************)
(* State of a client: the snapshot behind its mutex, the background        *)
(* thread, the server, and a caller with the handle it holds.              *)
(***************************************************************************)
VARIABLES
    snapshot,       \* the ConfigurationSnapshot inside latest_config_snapshot
    lock,           \* the holder of the mutex: "free", "worker" or "caller"
    dropped,        \* the AppConfigurationClient (and its Sender) is dropped
    w_pc,           \* where the background thread is
    config_result,  \* the thread's local config_result
    fetched,        \* the last response of http::get_configuration
    reads,          \* the number of socket reads that have returned
    printed,        \* the last line the thread has printed
    c_pc,           \* where the caller is inside a client method
    c_op,           \* the method it runs and its argument
    c_copy,         \* the resource it has cloned out of the snapshot
    c_result,       \* what the last method returned
    handle,         \* the Feature / Property handle the caller holds
    observed        \* a value the caller got from that handle, with the entity

svars ==
    <<snapshot, lock, dropped, w_pc, config_result, fetched, reads, printed,
      c_pc, c_op, c_copy, c_result, handle, observed>>

vars == <<evars, svars>>

\* Sequences over S of length lo..hi.
SeqsOf(S, lo, hi) == UNION {[1..n -> S] : n \in lo..hi}

Operators ==
    {"is", "contains", "startsWith", "endsWith", "greaterThan", "lesserThan",
     "greaterThanEquals", "lesserThanEquals", "matches"}

RuleAttrNames == {"name", "age"}

\* Segment rules for a segment with a single rule.
RichRules ==
    {SegmentRule(a, op, vs) :
        a \in RuleAttrNames, op \in Operators,
        vs \in SeqsOf({"heinz", "42", "abc"}, 0, MaxValues)}

\* Segment rules for a segment with several rules.
ContextRules ==
    {SegmentRule(a, op, <<v>>) :
        a \in RuleAttrNames, op \in {"is", "contains", "greaterThan"},
        v \in {"heinz", "42"}}

SegmentInputs ==
    {Segment("s1", <<r>>) : r \in RichRules}
        \cup {Segment("s1", rs) : rs \in SeqsOf(ContextRules, 0, MaxSegmentRules)}

\* Entity::get_attributes: a map from some attribute names to values.
AttrMap(name, age) ==
    [a \in {x \in {"name"} : name.type # ""} \cup {x \in {"age"} : age.type # ""} |->
        IF a = "name" THEN name ELSE age]

Absent == [type |-> "", num |-> 0, str |-> "", bool |-> FALSE]

AttrInputs ==
    {AttrMap(n, a) :
        n \in {Absent, AttrString("heinz"), AttrNumeric(42)},
        a \in {Absent, AttrNumeric(42), AttrBoolean(TRUE), AttrString("42")}}

NoOut ==
    [belongs |-> OkB(FALSE), found |-> FoundNone,
     value |-> ValueErr("none", NoErr), pvalue |-> ValueErr("none", NoErr),
     hvalue |-> ValueErr("none", NoErr), bucket |-> -1]

OneRuleFor(segment_id) ==
    <<TargetingRule(<<Segments(<<segment_id>>)>>, Number(-48), 0, Some(Number(100)))>>

(***************************************************************************)
(* client/cache.rs: ConfigurationSnapshot.                                 *)
(***************************************************************************)
Environment(id, features, properties) ==
    [environment_id |-> id, features |-> features, properties |-> properties]

Configuration(environments, segments) ==
    [environments |-> environments, segments |-> segments]

ConfigurationSnapshot(features, properties, segments) ==
    [features |-> features, properties |-> properties, segments |-> segments]

\* ConfigurationSnapshot::default()
EmptySnapshot == ConfigurationSnapshot(<< >>, << >>, << >>)

\* A HashMap filled by inserting the items of a list under their field key:
\* the last item with an id is the one kept.
LastIndex(items, key, id) ==
    CHOOSE i \in DOMAIN items :
        /\ items[i][key] = id
        /\ \A j \in DOMAIN items : items[j][key] = id => j <= i

index_by(items, key) ==
    [id \in {items[i][key] : i \in DOMAIN items} |-> items[LastIndex(items, key, id)]]

SnapshotOk(s) == [ok |-> TRUE, snapshot |-> s, err |-> "none"]
SnapshotErr(e) == [ok |-> FALSE, snapshot |-> EmptySnapshot, err |-> e]

\* ConfigurationSnapshot::new
snapshot_new(environment_id, configuration) ==
    LET found == {i \in DOMAIN configuration.environments :
                    configuration.environments[i].environment_id = environment_id}
    IN  IF found = {} THEN SnapshotErr("EnvironmentNotFound")
        ELSE LET environment ==
                     configuration.environments[CHOOSE i \in found : \A j \in found : i <= j]
             IN  SnapshotOk(ConfigurationSnapshot(
                     index_by(environment.features, "feature_id"),
                     index_by(environment.properties, "property_id"),
                     index_by(configuration.segments, "segment_id")))

\* AppConfigurationClient::get_configuration_snapshot on a server response:
\* a transport error, or the snapshot built from the document.
TransportError == [transport_error |-> TRUE, configuration |-> Configuration(<< >>, << >>)]
Response(configuration) == [transport_error |-> FALSE, configuration |-> configuration]

get_configuration_snapshot(environment_id, response) ==
    IF response.transport_error THEN SnapshotErr("ClientRequestError")
    ELSE snapshot_new(environment_id, response.configuration)

\* A variant of the assignment that keeps what the new snapshot does not name.
merge_snapshot(old, new) ==
    LET merge(a, b) == [id \in DOMAIN a \cup DOMAIN b |-> IF id \in DOMAIN b THEN b[id] ELSE a[id]]
    IN  ConfigurationSnapshot(merge(old.features, new.features),
                              merge(old.properties, new.properties),
                              merge(old.segments, new.segments))

\* `*config_snapshot = config`
replace_snapshot(old, new) == new

(***************************************************************************)
(* client/app_configuration_client.rs: get_feature and get_property, on    *)
(* the snapshot the caller has locked.                                     *)
(***************************************************************************)
NoFeature == Feature("", "Numeric", FALSE, Number(0), Number(0), 0, << >>)
NoProperty == Property("", "Numeric", Number(0), << >>)

\* The segment ids named by the targeting rules of a resource.
all_segment_ids(segment_rules) ==
    UNION {UNION {{group.segments[k] : k \in DOMAIN group.segments} :
                    group \in {segment_rules[i].rules[j] : j \in DOMAIN segment_rules[i].rules}} :
             i \in DOMAIN segment_rules}

\* The entries of the snapshot's segment map with one of these ids.
filter_segments(segments, ids) == [id \in DOMAIN segments \cap ids |-> segments[id]]

\* Feature::new(feature.clone(), segments) / Property::new(property.clone(), segments)
NoHandle == [what |-> "none", feature |-> NoFeature, property |-> NoProperty,
             segments |-> << >>]

new_handle(what, feature, property, segments) ==
    [what |-> what, feature |-> feature, property |-> property, segments |-> segments]

\* What a client method returns: a status, the ids listed, the handle made.
Returned(status, ids, h) == [status |-> status, ids |-> ids, handle |-> h]
NoResult == Returned("none", {}, NoHandle)

\* A variant of the integrity check that makes the handle from what it found.
collect_segments_unchecked(what, resource_id, feature, property, segment_rules, segments) ==
    Returned("ok", {},
             new_handle(what, feature, property,
                        filter_segments(segments, all_segment_ids(segment_rules))))

\* The integrity check of get_feature / get_property and the handle they make.
collect_segments(what, resource_id, feature, property, segment_rules, segments) ==
    LET ids == all_segment_ids(segment_rules)
        kept == filter_segments(segments, ids)
    IN  IF Cardinality(ids) # Cardinality(DOMAIN kept)
        THEN Returned("MissingSegments", {resource_id}, NoHandle)
        ELSE Returned("ok", {}, new_handle(what, feature, property, kept))

\* get_feature from the lookup to the return, on one snapshot.
get_feature_on(snap, feature_id) ==
    IF feature_id \notin DOMAIN snap.features
    THEN Returned("FeatureNotFound", {feature_id}, NoHandle)
    ELSE collect_segments("feature", feature_id, snap.features[feature_id], NoProperty,
                          snap.features[feature_id].segment_rules, snap.segments)

\* get_property from the lookup to the return, on one snapshot.
get_property_on(snap, property_id) ==
    IF property_id \notin DOMAIN snap.properties
    THEN Returned("PropertyNotFound", {property_id}, NoHandle)
    ELSE collect_segments("property", property_id, NoFeature, snap.properties[property_id],
                          snap.properties[property_id].segment_rules, snap.segments)

\* get_value on a handle the caller holds.
handle_get_value(h, entity) ==
    IF h.what = "feature" THEN feature_get_value(h.feature, h.segments, entity)
    ELSE property_get_value(h.property, h.segments, entity)

(***************************************************************************)
(* client/feature_proxy.rs, client/property_proxy.rs: a proxy holds the    *)
(* shared store and the id it was made for.                                *)
(***************************************************************************)
FeatureProxy(feature_id) ==
    [what |-> "feature_proxy", feature |-> [NoFeature EXCEPT !.feature_id = feature_id],
     property |-> NoProperty, segments |-> << >>]

PropertyProxy(property_id) ==
    [what |-> "property_proxy", feature |-> NoFeature,
     property |-> [NoProperty EXCEPT !.property_id = property_id], segments |-> << >>]

\* AppConfigurationClient::get_feature_proxy: no look at the snapshot.
get_feature_proxy(snap, feature_id) == Returned("ok", {}, FeatureProxy(feature_id))

\* AppConfigurationClient::get_property_proxy: no look at the snapshot.
get_property_proxy(snap, property_id) == Returned("ok", {}, PropertyProxy(property_id))

MISSING_FEATURE_ERROR_MSG == "The feature should exist in the configuration_snapshot."
MISSING_PROPERTY_ERROR_MSG == "The property should exist in the index."

\* FeatureProxy::get_enabled_value: get_feature(id).expect(..).enabled_value
proxy_get_enabled_value(snap, proxy) ==
    IF proxy.feature.feature_id \in DOMAIN snap.features
    THEN EvalOk(snap.features[proxy.feature.feature_id].enabled_value)
    ELSE EvalPanic(MISSING_FEATURE_ERROR_MSG)

\* PropertyProxy::get_value: get_property(id).expect(..).value
proxy_get_value(snap, proxy) ==
    IF proxy.property.property_id \in DOMAIN snap.properties
    THEN EvalOk(snap.properties[proxy.property.property_id].value)
    ELSE EvalPanic(MISSING_PROPERTY_ERROR_MSG)

(***************************************************************************)
(* The server: the documents http::get_configuration may return.           *)
(***************************************************************************)
RuleFor(segment_id, v) ==
    TargetingRule(<<Segments(<<segment_id>>)>>, Number(v), 0, Some(Number(100)))

DocumentA ==
    Configuration(
        <<Environment("dev",
            <<Feature("f1", "Numeric", TRUE, Number(-42), Number(2), 100,
                      <<RuleFor("s1", -48)>>)>>,
            <<Property("p1", "Numeric", Number(7), <<RuleFor("s1", -48)>>)>>)>>,
        <<Segment("s1", <<SegmentRule("name", "is", <<"heinz">>)>>)>>)

DocumentB ==
    Configuration(
        <<Environment("prod",
            <<Feature("f1", "Numeric", FALSE, Number(1), Number(0), 0, << >>)>>,
            << >>),
          Environment("dev",
            <<Feature("f1", "Numeric", TRUE, Number(42), Number(-42), 100,
                      <<RuleFor("s1", -49)>>),
              Feature("f2", "Numeric", TRUE, Number(1), Number(0), 100,
                      <<RuleFor("s9", 5)>>)>>,
            <<Property("p1", "Numeric", Number(8), << >>)>>)>>,
        <<Segment("s1", <<SegmentRule("name", "is", <<"abc">>)>>),
          Segment("s2", <<SegmentRule("age", "greaterThan", <<"41">>)>>)>>)

DocumentC ==
    Configuration(
        <<Environment("prod",
            <<Feature("f1", "Numeric", FALSE, Number(1), Number(0), 0, << >>)>>,
            << >>)>>,
        << >>)

\* A document in which f1 is disabled and has another disabled_value.
DocumentD ==
    Configuration(
        <<Environment("dev",
            <<Feature("f1", "Numeric", FALSE, Number(-42), Number(3), 100,
                      <<RuleFor("s1", -48)>>)>>,
            <<Property("p1", "Numeric", Number(7), << >>)>>)>>,
        <<Segment("s1", <<SegmentRule("name", "is", <<"heinz">>)>>)>>)

Responses == {TransportError, Response(DocumentA), Response(DocumentB), Response(DocumentC)}

\* The environment_id the client was created for.
EnvironmentId == "dev"

\* The entities the caller evaluates a handle for.
CallerEntities ==
    {Entity("a2", AttrMap(Absent, Absent)), Entity("a2", AttrMap(AttrString("heinz"), Absent))}

\* get_value on a handle, for each of these entities.
values_of(h) == [entity \in CallerEntities |-> handle_get_value(h, entity)]

NotObserved == [some |-> FALSE, values |-> << >>]

\* Mutex::lock returns once no other thread holds the guard.
can_lock(holder) == holder = "free"

\* receiver.try_recv() is Err(Disconnected) once the Sender is dropped.
terminator_never_disconnected(sender_dropped) == FALSE

terminator_disconnected(sender_dropped) == sender_dropped

\* The evaluation variables, unused by the client.
EvalUnused ==
    /\ e_pc = "unused"
    /\ e_feature = NoFeature
    /\ e_property = NoProperty
    /\ e_segments = << >>
    /\ e_entity = Entity("", << >>)
    /\ e_out = NoOut

\* AppConfigurationClient::new: the initial snapshot is fetched and the
\* background thread is started.
Init ==
    /\ EvalUnused
    /\ snapshot = snapshot_new(EnvironmentId, DocumentA).snapshot
    /\ lock = "free"
    /\ dropped = FALSE
    /\ w_pc = "top"
    /\ config_result = SnapshotErr("none")
    /\ fetched = Response(DocumentA)
    /\ reads = 0
    /\ printed = ""
    /\ c_pc = "idle"
    /\ c_op = [name |-> "none", id |-> ""]
    /\ c_copy = NoHandle
    /\ c_result = NoResult
    /\ handle = NoHandle
    /\ observed = NotObserved

callervars == <<c_pc, c_op, c_copy, c_result, handle, observed>>
workervars == <<w_pc, config_result, fetched, reads, printed>>

(***************************************************************************)
(* update_configuration_on_change: the loop of the background thread.      *)
(***************************************************************************)
\* `receiver.try_recv()` at the top of the loop, then `socket.read()`.
WorkerTop ==
    /\ w_pc = "top"
    /\ w_pc' = IF terminator_disconnected(dropped) THEN "exit_dropped" ELSE "read"
    /\ UNCHANGED <<evars, snapshot, lock, dropped, config_result, fetched, reads, printed,
                   callervars>>

\* socket.read() returns a message; the server sends at most MaxReads of them.

\* A variant in which the test message is taken for a change.
WorkerTestMessageFetches ==
    /\ w_pc = "read"
    /\ reads < MaxReads
    /\ reads' = reads + 1
    /\ printed' = "Test message received."
    /\ w_pc' = "fetch"
    /\ UNCHANGED <<evars, snapshot, lock, dropped, config_result, fetched, callervars>>

\* Ok(Message::Text("test message"))
WorkerTestMessage ==
    /\ w_pc = "read"
    /\ reads < MaxReads
    /\ reads' = reads + 1
    /\ printed' = "Test message received."
    /\ w_pc' = "sleep"
    /\ UNCHANGED <<evars, snapshot, lock, dropped, config_result, fetched, callervars>>

\* Ok(Message::Text(_)): the configuration has changed.
WorkerChange ==
    /\ w_pc = "read"
    /\ reads < MaxReads
    /\ reads' = reads + 1
    /\ printed' = printed
    /\ w_pc' = "fetch"
    /\ UNCHANGED <<evars, snapshot, lock, dropped, config_result, fetched, callervars>>

\* A variant that reads on after a close.
WorkerCloseReconnect ==
    /\ w_pc = "read"
    /\ reads < MaxReads
    /\ reads' = reads + 1
    /\ printed' = "Connection closed by the server."
    /\ w_pc' = "sleep"
    /\ UNCHANGED <<evars, snapshot, lock, dropped, config_result, fetched, callervars>>

\* Ok(Message::Close(_))
WorkerClose ==
    /\ w_pc = "read"
    /\ reads < MaxReads
    /\ reads' = reads + 1
    /\ printed' = "Connection closed by the server."
    /\ w_pc' = "exit_closed"
    /\ UNCHANGED <<evars, snapshot, lock, dropped, config_result, fetched, callervars>>

\* Ok(Message::Binary | Ping | Pong | Frame)
WorkerOtherMessage ==
    /\ w_pc = "read"
    /\ reads < MaxReads
    /\ reads' = reads + 1
    /\ printed' \in {"binary", "ping", "pong", "frame"}
    /\ w_pc' = "sleep"
    /\ UNCHANGED <<evars, snapshot, lock, dropped, config_result, fetched, callervars>>

\* Err(e)
WorkerReadError ==
    /\ w_pc = "read"
    /\ reads < MaxReads
    /\ reads' = reads + 1
    /\ printed' = "Error"
    /\ w_pc' = "exit_error"
    /\ UNCHANGED <<evars, snapshot, lock, dropped, config_result, fetched, callervars>>

\* Self::get_configuration_snapshot(..) of the arm for a change.
WorkerFetch ==
    /\ w_pc = "fetch"
    /\ \E response \in Responses :
        /\ fetched' = response
        /\ config_result' = get_configuration_snapshot(EnvironmentId, response)
    /\ w_pc' = "lock"
    /\ UNCHANGED <<evars, snapshot, lock, dropped, reads, printed, callervars>>

\* latest_config_snapshot.lock().unwrap()
WorkerLock ==
    /\ w_pc = "lock"
    /\ can_lock(lock)
    /\ lock' = "worker"
    /\ w_pc' = "match"
    /\ UNCHANGED <<evars, snapshot, dropped, config_result, fetched, reads, printed,
                   callervars>>

\* A variant that stops the thread when the fetch has failed.
WorkerMatchStopOnError ==
    /\ w_pc = "match"
    /\ IF config_result.ok
       THEN /\ snapshot' = replace_snapshot(snapshot, config_result.snapshot)
            /\ w_pc' = "sleep"
            /\ UNCHANGED printed
       ELSE /\ printed' = "Error getting config snapshot"
            /\ w_pc' = "exit_error"
            /\ UNCHANGED snapshot
    /\ lock' = "free"
    /\ UNCHANGED <<evars, dropped, config_result, fetched, reads, callervars>>

\* A variant whose handles share the data of the store instead of cloning it.
WorkerMatchSharedHandle ==
    /\ w_pc = "match"
    /\ IF config_result.ok
       THEN /\ snapshot' = replace_snapshot(snapshot, config_result.snapshot)
            /\ handle' =
                 IF handle.what = "feature"
                    /\ handle.feature.feature_id \in DOMAIN config_result.snapshot.features
                 THEN get_feature_on(config_result.snapshot, handle.feature.feature_id).handle
                 ELSE handle
            /\ UNCHANGED printed
       ELSE /\ printed' = "Error getting config snapshot"
            /\ UNCHANGED <<snapshot, handle>>
    /\ lock' = "free"
    /\ w_pc' = "sleep"
    /\ UNCHANGED <<evars, dropped, config_result, fetched, reads,
                   c_pc, c_op, c_copy, c_result, observed>>

\* `match config_result { Ok(config) => *config_snapshot = config, Err(e) => println!(..) }`
\* and the end of the block, where the guard is dropped.
WorkerMatch ==
    /\ w_pc = "match"
    /\ IF config_result.ok
       THEN /\ snapshot' = replace_snapshot(snapshot, config_result.snapshot)
            /\ UNCHANGED printed
       ELSE /\ printed' = "Error getting config snapshot"
            /\ UNCHANGED snapshot
    /\ lock' = "free"
    /\ w_pc' = "sleep"
    /\ UNCHANGED <<evars, dropped, config_result, fetched, reads, callervars>>

\* thread::sleep(Duration::from_millis(100))
WorkerSleep ==
    /\ w_pc = "sleep"
    /\ w_pc' = "top"
    /\ UNCHANGED <<evars, snapshot, lock, dropped, config_result, fetched, reads, printed,
                   callervars>>

(***************************************************************************)
(* The caller: the public methods of the client, and a handle.             *)
(***************************************************************************)
Methods ==
    {[name |-> "get_feature_ids", id |-> ""], [name |-> "get_property_ids", id |-> ""]}
        \cup {[name |-> "get_feature", id |-> id] : id \in {"f1", "f2", "f3"}}
        \cup {[name |-> "get_property", id |-> id] : id \in {"p1", "p2"}}

\* A method of the client is called: self.latest_config_snapshot.lock()
CallerLock ==
    /\ c_pc = "idle"
    /\ ~dropped
    /\ can_lock(lock)
    /\ c_op' \in Methods
    /\ c_result' = NoResult
    /\ lock' = "caller"
    /\ c_pc' = "locked"
    /\ UNCHANGED <<evars, snapshot, dropped, workervars, c_copy, handle, observed>>

\* get_feature_ids / get_property_ids: the keys are collected, the guard dropped.
CallerIds ==
    /\ c_pc = "locked"
    /\ c_op.name \in {"get_feature_ids", "get_property_ids"}
    /\ c_result' = Returned("ok",
                            IF c_op.name = "get_feature_ids" THEN DOMAIN snapshot.features
                            ELSE DOMAIN snapshot.properties,
                            NoHandle)
    /\ lock' = "free"
    /\ c_pc' = "idle"
    /\ UNCHANGED <<evars, snapshot, dropped, workervars, c_op, c_copy, handle, observed>>

\* A variant of the lookup whose error names no id and tells no kinds apart.
lookup_unnamed(snap, op) ==
    IF op.name = "get_feature" /\ op.id \in DOMAIN snap.features
    THEN Returned("ok", {}, new_handle("feature", snap.features[op.id], NoProperty, << >>))
    ELSE IF op.name = "get_property" /\ op.id \in DOMAIN snap.properties
    THEN Returned("ok", {}, new_handle("property", NoFeature, snap.properties[op.id], << >>))
    ELSE Returned("FeatureNotFound", {}, NoHandle)

\* The resource of the snapshot a method looks up, as a handle without segments.
lookup(snap, op) ==
    IF op.name = "get_feature"
    THEN (IF op.id \in DOMAIN snap.features
          THEN Returned("ok", {}, new_handle("feature", snap.features[op.id], NoProperty, << >>))
          ELSE Returned("FeatureNotFound", {op.id}, NoHandle))
    ELSE (IF op.id \in DOMAIN snap.properties
          THEN Returned("ok", {}, new_handle("property", NoFeature, snap.properties[op.id], << >>))
          ELSE Returned("PropertyNotFound", {op.id}, NoHandle))

\* A variant that locks once for the lookup and again for the segments.
CallerLookupUnlocked ==
    /\ c_pc = "locked"
    /\ c_op.name \in {"get_feature", "get_property"}
    /\ IF lookup(snapshot, c_op).status = "ok"
       THEN /\ c_copy' = lookup(snapshot, c_op).handle
            /\ c_pc' = "found"
            /\ UNCHANGED c_result
       ELSE /\ c_result' = lookup(snapshot, c_op)
            /\ c_pc' = "idle"
            /\ UNCHANGED c_copy
    /\ lock' = "free"
    /\ UNCHANGED <<evars, snapshot, dropped, workervars, c_op, handle, observed>>

\* `config_snapshot.get_feature(feature_id)?` / `get_property(property_id)?`:
\* an error returns and drops the guard.
CallerLookup ==
    /\ c_pc = "locked"
    /\ c_op.name \in {"get_feature", "get_property"}
    /\ IF lookup(snapshot, c_op).status = "ok"
       THEN /\ c_copy' = lookup(snapshot, c_op).handle
            /\ c_pc' = "found"
            /\ UNCHANGED <<c_result, lock>>
       ELSE /\ c_result' = lookup(snapshot, c_op)
            /\ c_pc' = "idle"
            /\ lock' = "free"
            /\ UNCHANGED c_copy
    /\ UNCHANGED <<evars, snapshot, dropped, workervars, c_op, handle, observed>>

\* A variant that drops the segments from the store when the check fails.
CallerCollectPruning ==
    /\ c_pc = "found"
    /\ LET rules == IF c_copy.what = "feature" THEN c_copy.feature.segment_rules
                    ELSE c_copy.property.segment_rules
           result == collect_segments(c_copy.what, c_op.id, c_copy.feature, c_copy.property,
                                      rules, snapshot.segments)
       IN  /\ c_result' = result
           /\ IF result.status = "ok"
              THEN handle' = result.handle /\ observed' = NotObserved /\ UNCHANGED snapshot
              ELSE /\ snapshot' = [snapshot EXCEPT !.segments = << >>]
                   /\ UNCHANGED <<handle, observed>>
    /\ c_copy' = NoHandle
    /\ lock' = "free"
    /\ c_pc' = "idle"
    /\ UNCHANGED <<evars, dropped, workervars, c_op>>

\* The segments of the resource are collected and checked, the handle is
\* returned and the guard dropped.
CallerCollect ==
    /\ c_pc = "found"
    /\ LET rules == IF c_copy.what = "feature" THEN c_copy.feature.segment_rules
                    ELSE c_copy.property.segment_rules
           result == collect_segments(c_copy.what, c_op.id, c_copy.feature, c_copy.property,
                                      rules, snapshot.segments)
       IN  /\ c_result' = result
           /\ IF result.status = "ok"
              THEN handle' = result.handle /\ observed' = NotObserved
              ELSE UNCHANGED <<handle, observed>>
    /\ c_copy' = NoHandle
    /\ lock' = "free"
    /\ c_pc' = "idle"
    /\ UNCHANGED <<evars, snapshot, dropped, workervars, c_op>>

\* handle.get_value(&entity) for each entity; the caller keeps the values.
CallerGetValue ==
    /\ c_pc = "idle"
    /\ handle # NoHandle
    /\ ~observed.some
    /\ observed' = [some |-> TRUE, values |-> values_of(handle)]
    /\ UNCHANGED <<evars, snapshot, lock, dropped, workervars, c_pc, c_op, c_copy, c_result,
                   handle>>

\* The client is dropped, and its Sender with it.
CallerDrop ==
    /\ c_pc = "idle"
    /\ ~dropped
    /\ dropped' = TRUE
    /\ UNCHANGED <<evars, snapshot, lock, workervars, callervars>>

Next ==
    \/ WorkerTop
    \/ WorkerTestMessage
    \/ WorkerChange
    \/ WorkerClose
    \/ WorkerOtherMessage
    \/ WorkerReadError
    \/ WorkerFetch
    \/ WorkerLock
    \/ WorkerMatch
    \/ WorkerSleep
    \/ CallerLock
    \/ CallerIds
    \/ CallerLookup
    \/ CallerCollect
    \/ CallerGetValue
    \/ CallerDrop

Spec == Init /\ [][Next]_vars

(***************************************************************************)
(* A caller that works with proxies, beside the background thread.         *)
(***************************************************************************)
ProxyMethods ==
    {[name |-> "get_feature_proxy", id |-> id] : id \in {"f1", "f2", "f3"}}
        \cup {[name |-> "get_property_proxy", id |-> id] : id \in {"p1", "p2"}}

\* get_feature_proxy / get_property_proxy: the Arc is cloned, no lock is taken.
CallerProxy ==
    /\ c_pc = "idle"
    /\ ~dropped
    /\ c_op' \in ProxyMethods
    /\ c_result' = IF c_op'.name = "get_feature_proxy"
                   THEN get_feature_proxy(snapshot, c_op'.id)
                   ELSE get_property_proxy(snapshot, c_op'.id)
    /\ IF c_result'.status = "ok"
       THEN handle' = c_result'.handle /\ observed' = NotObserved
       ELSE UNCHANGED <<handle, observed>>
    /\ UNCHANGED <<evars, snapshot, lock, dropped, workervars, c_pc, c_copy>>

\* An accessor of the proxy: the store is locked, the resource is looked up
\* with expect(), a field is cloned and the guard dropped.  A panic unwinds
\* the caller with the guard held, which poisons the mutex.
ProxyAccess ==
    /\ c_pc = "idle"
    /\ handle.what \in {"feature_proxy", "property_proxy"}
    /\ can_lock(lock)
    /\ observed' =
         [some |-> TRUE,
          values |-> IF handle.what = "feature_proxy"
                     THEN [a \in {"get_enabled_value"} |->
                              proxy_get_enabled_value(snapshot, handle)]
                     ELSE [a \in {"get_value"} |-> proxy_get_value(snapshot, handle)]]
    /\ IF \E a \in DOMAIN observed'.values : observed'.values[a].status = "panic"
       THEN c_pc' = "panicked" /\ lock' = "poisoned"
       ELSE UNCHANGED <<c_pc, lock>>
    /\ UNCHANGED <<evars, snapshot, dropped, workervars, c_op, c_copy, c_result, handle>>

\* latest_config_snapshot.lock().unwrap() on a poisoned mutex: the thread panics.
WorkerLockPoisoned ==
    /\ w_pc = "lock"
    /\ lock = "poisoned"
    /\ w_pc' = "exit_panic"
    /\ UNCHANGED <<evars, snapshot, lock, dropped, config_result, fetched, reads, printed,
                   callervars>>

\* The documents served to a client whose caller works with proxies.
ProxyResponses == Responses \cup {Response(DocumentD)}

\* Self::get_configuration_snapshot(..) of the arm for a change.
WorkerFetchProxy ==
    /\ w_pc = "fetch"
    /\ \E response \in ProxyResponses :
        /\ fetched' = response
        /\ config_result' = get_configuration_snapshot(EnvironmentId, response)
    /\ w_pc' = "lock"
    /\ UNCHANGED <<evars, snapshot, lock, dropped, reads, printed, callervars>>

\* The entity a proxy is evaluated for.
ProxyEntity == Entity("a2", AttrMap(AttrString("heinz"), Absent))

\* What get_current_value has given: a value or a panic of the caller.
CurrentValue(result) == [some |-> TRUE, values |-> [a \in {"get_current_value"} |-> result]]

\* get_feature(&self.feature_id) is Ok on this snapshot.
proxy_has_feature(snap, proxy) == proxy.feature.feature_id \in DOMAIN snap.features

\* FeatureProxy::get_current_value begins: self.is_enabled() locks the store,
\* reads the flag and drops the guard.
ProxyIsEnabled ==
    /\ c_pc = "idle"
    /\ handle.what = "feature_proxy"
    /\ can_lock(lock)
    /\ IF proxy_has_feature(snapshot, handle)
       THEN /\ c_pc' = IF snapshot.features[handle.feature.feature_id].enabled
                       THEN "evaluate" ELSE "disabled"
            /\ observed' = NotObserved
            /\ UNCHANGED lock
       ELSE /\ c_pc' = "panicked"
            /\ observed' = CurrentValue(EvalPanic(MISSING_FEATURE_ERROR_MSG))
            /\ lock' = "poisoned"
    /\ UNCHANGED <<evars, snapshot, dropped, workervars, c_op, c_copy, c_result, handle>>

\* `self.get_disabled_value()` of get_current_value: a second lock of the store.
ProxyGetDisabledValue ==
    /\ c_pc = "disabled"
    /\ can_lock(lock)
    /\ IF proxy_has_feature(snapshot, handle)
       THEN /\ c_pc' = "idle"
            /\ observed' =
                  CurrentValue(EvalOk(snapshot.features[handle.feature.feature_id].disabled_value))
            /\ UNCHANGED lock
       ELSE /\ c_pc' = "panicked"
            /\ observed' = CurrentValue(EvalPanic(MISSING_FEATURE_ERROR_MSG))
            /\ lock' = "poisoned"
    /\ UNCHANGED <<evars, snapshot, dropped, workervars, c_op, c_copy, c_result, handle>>

\* evaluate_feature_for_entity: `self.get_id()` for the tag.
ProxyGetId ==
    /\ c_pc = "evaluate"
    /\ can_lock(lock)
    /\ IF proxy_has_feature(snapshot, handle)
       THEN c_pc' = "rules_len" /\ UNCHANGED <<observed, lock>>
       ELSE /\ c_pc' = "panicked"
            /\ observed' = CurrentValue(EvalPanic(MISSING_FEATURE_ERROR_MSG))
            /\ lock' = "poisoned"
    /\ UNCHANGED <<evars, snapshot, dropped, workervars, c_op, c_copy, c_result, handle>>

\* evaluate_feature_for_entity: `self.get_targeting_rules().len() == 0 && ..`
ProxyRulesLen ==
    /\ c_pc = "rules_len"
    /\ can_lock(lock)
    /\ IF proxy_has_feature(snapshot, handle)
       THEN c_pc' = "find" /\ UNCHANGED <<observed, lock>>
       ELSE /\ c_pc' = "panicked"
            /\ observed' = CurrentValue(EvalPanic(MISSING_FEATURE_ERROR_MSG))
            /\ lock' = "poisoned"
    /\ UNCHANGED <<evars, snapshot, dropped, workervars, c_op, c_copy, c_result, handle>>

\* The first argument of find_applicable_segment_rule_for_entity:
\* `&self.configuration_snapshot.lock()...segments`.  The guard is a temporary
\* of the statement and lives until the call has returned.  PropertyProxy's
\* get_current_value begins here.
ProxyLockSegments ==
    /\ \/ c_pc = "find"
       \/ c_pc = "idle" /\ handle.what = "property_proxy"
    /\ can_lock(lock)
    /\ lock' = "caller"
    /\ c_pc' = "holding"
    /\ observed' = NotObserved
    /\ UNCHANGED <<evars, snapshot, dropped, workervars, c_op, c_copy, c_result, handle>>

\* The second argument: `self.get_targeting_rules()` locks the mutex that this
\* thread holds.  Mutex::lock does not return then: it blocks for ever or panics.
ProxyRelock ==
    /\ c_pc = "holding"
    /\ \/ c_pc' = "deadlocked" /\ UNCHANGED <<lock, observed>>
       \/ /\ c_pc' = "panicked"
          /\ lock' = "poisoned"
          /\ observed' = CurrentValue(EvalPanic("lock"))
    /\ UNCHANGED <<evars, snapshot, dropped, workervars, c_op, c_copy, c_result, handle>>

NextProxy ==
    \/ WorkerTop
    \/ WorkerTestMessage
    \/ WorkerChange
    \/ WorkerClose
    \/ WorkerOtherMessage
    \/ WorkerReadError
    \/ WorkerFetchProxy
    \/ WorkerLock
    \/ WorkerLockPoisoned
    \/ WorkerMatch
    \/ WorkerSleep
    \/ CallerProxy
    \/ ProxyAccess
    \/ ProxyIsEnabled
    \/ ProxyGetDisabledValue
    \/ ProxyGetId
    \/ ProxyRulesLen
    \/ ProxyLockSegments
    \/ ProxyRelock
    \/ CallerDrop

SpecProxy == Init /\ [][NextProxy]_vars

(***************************************************************************)
(* Evaluations on their own: the inputs are drawn, one call is made.       *)
(***************************************************************************)
\* The client variables, unused by an evaluation on its own.
StoreUnused ==
    /\ snapshot = EmptySnapshot
    /\ lock = "free"
    /\ dropped = FALSE
    /\ w_pc = "unused"
    /\ config_result = SnapshotErr("none")
    /\ fetched = TransportError
    /\ reads = 0
    /\ printed = ""
    /\ c_pc = "unused"
    /\ c_op = [name |-> "none", id |-> ""]
    /\ c_copy = NoHandle
    /\ c_result = NoResult
    /\ handle = NoHandle
    /\ observed = NotObserved

\* One segment, drawn from SegmentInputs, behind one targeting rule.
InitSegment ==
    /\ e_pc = "input"
    /\ \E segment \in SegmentInputs : e_segments = [id \in {"s1"} |-> segment]
    /\ \E attrs \in AttrInputs : e_entity = Entity("a2", attrs)
    /\ e_feature = Feature("f1", "Numeric", TRUE, Number(-42), Number(2), 100,
                           OneRuleFor("s1"))
    /\ e_property = Property("p1", "Numeric", Number(-42), OneRuleFor("s1"))
    /\ e_out = NoOut
    /\ StoreUnused

\* The segments of the feature-level inputs.
CatalogSegments ==
    [id \in {"s1", "s2", "s3"} |->
        CASE id = "s1" -> Segment("s1", <<SegmentRule("name", "is", <<"heinz">>)>>)
          [] id = "s2" -> Segment("s2", <<SegmentRule("age", "greaterThan", <<"41">>)>>)
          [] id = "s3" -> Segment("s3", <<SegmentRule("age", "contains", <<"42">>)>>)]

Orders == {0, 1}

ContextTargetingRules ==
    {TargetingRule(<<Segments(<<id>>)>>, v, o, Some(Number(100))) :
        id \in {"s1", "s2", "s3", "s9"}, v \in {Number(-48), Number(-49)}, o \in Orders}

FeatureShapes ==
    {[kind |-> "Numeric", enabled_value |-> Number(-42), disabled_value |-> Number(2)],
     [kind |-> "Boolean", enabled_value |-> Bool(TRUE), disabled_value |-> Number(2)]}

EntityInputs ==
    {Entity(id, attrs) :
        id \in {"a1", "a2"},
        attrs \in {AttrMap(Absent, Absent), AttrMap(AttrString("heinz"), Absent),
                   AttrMap(AttrString("heinz"), AttrNumeric(42)),
                   AttrMap(AttrString("abc"), AttrString("42"))}}

\* A feature and a property with the same targeting rules over the catalog.
InitEval ==
    /\ e_pc = "input"
    /\ e_segments = CatalogSegments
    /\ e_entity \in EntityInputs
    /\ \E shape \in FeatureShapes, enabled \in BOOLEAN, rp \in {0, 50, 100},
          rules \in SeqsOf(ContextTargetingRules, 0, MaxTargetingRules) :
            /\ e_feature = Feature("f1", shape.kind, enabled, shape.enabled_value,
                                   shape.disabled_value, rp, rules)
            /\ e_property = Property("p1", shape.kind, shape.enabled_value, rules)
    /\ e_out = NoOut
    /\ StoreUnused

\* One call of each evaluation entry point on the inputs.
Evaluate ==
    /\ e_pc = "input"
    /\ e_pc' = "done"
    /\ e_out' =
         [belongs |-> belong_to_segment(e_segments["s1"], e_entity.attributes),
          found |-> find_applicable_segment_rule_for_entity(
                        e_segments, e_feature.segment_rules, e_entity),
          value |-> get_value(e_feature, e_segments, e_entity),
          pvalue |-> property_get_value(e_property, e_segments, e_entity),
          hvalue |-> feature_get_value(e_feature, e_segments, e_entity),
          bucket |-> random_value(hash(e_entity.id, e_feature.feature_id))]
    /\ UNCHANGED <<e_feature, e_property, e_segments, e_entity, svars>>

NextEval == Evaluate

SpecSegment == InitSegment /\ [][NextEval]_vars

SpecEval == InitEval /\ [][NextEval]_vars


\* Rollout percentages of a targeting rule: the sentinel, none, numbers.
RolloutInputs ==
    {Some(String("$default")), None, Some(Number(50)), Some(Number(100))}

RolloutTargetingRules ==
    {TargetingRule(<<Segments(<<id>>)>>, v, 0, rp) :
        id \in {"s1", "s2"}, v \in {Number(-48), String("$default")},
        rp \in RolloutInputs}

RolloutEntities ==
    {Entity(id, attrs) :
        id \in {"a1", "a2"},
        attrs \in {AttrMap(Absent, Absent), AttrMap(AttrString("heinz"), Absent),
                   AttrMap(AttrString("abc"), AttrNumeric(42))}}

\* An enabled feature and a property whose rules carry sentinels.
InitRollout ==
    /\ e_pc = "input"
    /\ e_segments = CatalogSegments
    /\ e_entity \in RolloutEntities
    /\ \E id \in {"f1", "f2"}, rp \in {0, 50, 100},
          rules \in SeqsOf(RolloutTargetingRules, 0, MaxTargetingRules) :
            /\ e_feature = Feature(id, "Numeric", TRUE, Number(-42), Number(2), rp, rules)
            /\ e_property = Property("p1", "Numeric", Number(7), rules)
    /\ e_out = NoOut
    /\ StoreUnused

SpecRollout == InitRollout /\ [][NextEval]_vars

\* Targeting rules that cannot be evaluated (no groups of segments, no rollout
\* percentage, an unknown segment) next to one that can.
DirectTargetingRules ==
    {TargetingRule(<< >>, String(""), 0, None),
     TargetingRule(<<Segments(<<"s1">>)>>, Number(-48), 0, None),
     TargetingRule(<<Segments(<<"s9">>)>>, Number(-48), 0, Some(Number(100))),
     TargetingRule(<<Segments(<<"s1">>)>>, Number(-48), 0, Some(Number(100)))}

DirectEntities ==
    {Entity(id, attrs) :
        id \in {"a1", "a2"},
        attrs \in {AttrMap(Absent, Absent), AttrMap(AttrString("heinz"), Absent)}}

\* An enabled feature whose rules may be impossible to evaluate.
InitDirect ==
    /\ e_pc = "input"
    /\ e_segments = CatalogSegments
    /\ e_entity \in DirectEntities
    /\ \E rp \in {0, 50, 100},
          rules \in SeqsOf(DirectTargetingRules, 0, MaxTargetingRules) :
            /\ e_feature = Feature("f1", "Numeric", TRUE, Number(-42), Number(2), rp, rules)
            /\ e_property = Property("p1", "Numeric", Number(7), rules)
    /\ e_out = NoOut
    /\ StoreUnused

SpecDirect == InitDirect /\ [][NextEval]_vars

\* Values of each runtime type, and rules that serve them.
KindValues == {Number(-42), Bool(TRUE), String("on")}

KindTargetingRules ==
    {TargetingRule(<<Segments(<<"s1">>)>>, v, 0, Some(Number(100))) :
        v \in KindValues \cup {String("$default")}}

\* A feature and a property of each declared kind over values of each type.
InitKinds ==
    /\ e_pc = "input"
    /\ e_segments = CatalogSegments
    /\ \E name \in {"heinz", "abc"} :
          e_entity = Entity("a1", AttrMap(AttrString(name), Absent))
    /\ \E kind \in {"Numeric", "Boolean", "String"}, enabled \in BOOLEAN,
          ev \in KindValues, dv \in KindValues,
          rules \in SeqsOf(KindTargetingRules, 0, MaxTargetingRules) :
            /\ e_feature = Feature("f1", kind, enabled, ev, dv, 100, rules)
            /\ e_property = Property("p1", kind, ev, rules)
    /\ e_out = NoOut
    /\ StoreUnused

SpecKinds == InitKinds /\ [][NextEval]_vars

\* Entity and feature ids whose tags hash to the ends of the 32-bit range, to
\* both sides of the step from bucket 0 to 1, to the middle, and near the top.
Tags ==
    {<<id, "f1">> :
        id \in {"a1", "a2", "u4900973149", "u8610814110", "u1504249560", "u4181331748",
                "u4511490825", "u4457404905", "u1017327862", "u446238073",
                "u5147482946"}}
        \cup {<<"a1", "f2">>, <<"a2", "f2">>}

RolloutPercentages == {0, 1, 50, 99, 100}

\* An enabled feature with rules for s1 and entities that s1 does not hold.
InitBucket ==
    /\ e_pc = "input"
    /\ e_segments = CatalogSegments
    /\ \E tag \in Tags, attrs \in {AttrMap(Absent, Absent), AttrMap(AttrString("abc"), Absent)},
          rp \in RolloutPercentages,
          rules \in SeqsOf({OneRuleFor("s1")[1]}, 0, MaxTargetingRules) :
            /\ e_entity = Entity(tag[1], attrs)
            /\ e_feature = Feature(tag[2], "Numeric", TRUE, Number(-42), Number(2), rp, rules)
            /\ e_property = Property("p1", "Numeric", Number(7), rules)
    /\ e_out = NoOut
    /\ StoreUnused

SpecBucket == InitBucket /\ [][NextEval]_vars

(***************************************************************************)
(* Properties of the evaluation.                                           *)
(***************************************************************************)
EvaluationErrorKinds == {"SegmentEvaluationFailed", "SegmentIdNotFound", "panic"}

\* C1: a disabled feature evaluates to its disabled_value, coerced to the
\* declared kind, for every entity, rollout percentage, rule list and segment
\* map; the rules are not evaluated, so no evaluation error comes out of them.
C1_DisabledFeatureReturnsDisabledValue ==
    (e_pc = "done" /\ ~e_feature.enabled) =>
        /\ e_out.value = coerce(e_feature.kind, e_feature.disabled_value)
        /\ e_out.value.err.kind \notin EvaluationErrorKinds

\* A disabled feature whose rules name an unknown segment, evaluated for an
\* entity with attributes at rollout 100, gives disabled_value.
C1_Witness ==
    /\ e_pc = "done"
    /\ ~e_feature.enabled
    /\ e_feature.rollout_percentage = 100
    /\ DOMAIN e_entity.attributes # {}
    /\ \E i \in DOMAIN e_feature.segment_rules :
            e_feature.segment_rules[i].rules[1].segments[1] = "s9"
    /\ e_out.value = Value("Numeric", Number(2))

\* The indices of the targeting rules that match the entity.
MatchingRules(segments, rules, entity) ==
    {i \in DOMAIN rules :
        targeting_rule_applies_to_entity(segments, rules[i], entity) = OkB(TRUE)}

NoRuleFails(segments, rules, entity) ==
    \A i \in DOMAIN rules :
        targeting_rule_applies_to_entity(segments, rules[i], entity).ok

Permuted(rules, f) == [i \in DOMAIN rules |-> rules[f[i]]]

\* C2: when at least two targeting rules match and none fails, the rule found
\* is a matching rule of the smallest order, the same order for every
\* permutation of the list (the same rule when only one matching rule has that
\* order), and the feature and the property resolve from it.
C2_SmallestOrderWins ==
    LET rules == e_feature.segment_rules
        matching == MatchingRules(e_segments, rules, e_entity)
        found == e_out.found
    IN  (/\ e_pc = "done"
         /\ NoRuleFails(e_segments, rules, e_entity)
         /\ Cardinality(matching) >= 2) =>
            /\ found.ok /\ found.some
            /\ \E i \in matching : found.rule = rules[i]
            /\ \A i \in matching : found.rule.order <= rules[i].order
            /\ \A f \in Permutations(DOMAIN rules) :
                 LET other == find_applicable_segment_rule_for_entity(
                                  e_segments, Permuted(rules, f), e_entity)
                 IN  /\ other.ok /\ other.some
                     /\ other.rule.order = found.rule.order
                     /\ (Cardinality({i \in matching : rules[i].order = found.rule.order}) = 1
                            => other.rule = found.rule)
            /\ e_feature.enabled =>
                 e_out.value = coerce(e_feature.kind, found.rule.value)
            /\ e_out.pvalue = coerce(e_property.kind, found.rule.value)

\* Two rules match, the first of the document has the larger order, and the
\* second one is found.
C2_Witness ==
    /\ e_pc = "done"
    /\ e_feature.enabled
    /\ Len(e_feature.segment_rules) = 2
    /\ MatchingRules(e_segments, e_feature.segment_rules, e_entity) = {1, 2}
    /\ e_feature.segment_rules[1].order > e_feature.segment_rules[2].order
    /\ e_out.found.rule = e_feature.segment_rules[2]
    /\ e_out.value = Value("Numeric", e_feature.segment_rules[2].value)

\* The rules of the segment under test whose attribute the entity lacks.
AbsentRules ==
    {j \in DOMAIN e_segments["s1"].rules :
        e_segments["s1"].rules[j].attribute_name \notin DOMAIN e_entity.attributes}

FirstAbsentRule == CHOOSE j \in AbsentRules : \A k \in AbsentRules : j <= k

\* The check of value k of rule j of the segment under test fails.
CheckFails(j, k) ==
    LET rule == e_segments["s1"].rules[j]
    IN  /\ rule.attribute_name \in DOMAIN e_entity.attributes
        /\ ~check_operator(e_entity.attributes[rule.attribute_name],
                           rule.operator, rule.values[k]).ok

\* C9 as stated: a segment with a rule on an absent attribute is a non-match
\* and never an error, whatever its other rules are.
C9_AbsentAttributeNeverFails ==
    (e_pc = "done" /\ AbsentRules # {}) => e_out.belongs = OkB(FALSE)

\* C9, amended: such a segment never matches; it is a non-match without error
\* whenever no rule before the first absent-attribute rule fails its check,
\* whatever the rules after it; an error, if any, is that of a failing check
\* of an earlier rule.
C9_AbsentAttributeNonMatch ==
    LET segment == e_segments["s1"]
        belongs == e_out.belongs
    IN  (e_pc = "done" /\ AbsentRules # {}) =>
            /\ belongs # OkB(TRUE)
            /\ belongs.ok => belongs = OkB(FALSE)
            /\ (\A j \in 1..(FirstAbsentRule - 1) :
                    \A k \in DOMAIN segment.rules[j].values : ~CheckFails(j, k))
                  => belongs = OkB(FALSE)
            /\ ~belongs.ok =>
                 \E j \in 1..(FirstAbsentRule - 1) :
                    \E k \in DOMAIN segment.rules[j].values :
                        /\ CheckFails(j, k)
                        /\ belongs.err.attribute_name = segment.rules[j].attribute_name
                        /\ belongs.err.value = segment.rules[j].values[k]

\* A rule on an absent attribute is followed by a rule whose check fails, and
\* the segment is a plain non-match.
C9_Witness ==
    /\ e_pc = "done"
    /\ Len(e_segments["s1"].rules) = 2
    /\ AbsentRules = {1}
    /\ CheckFails(2, 1)
    /\ e_out.belongs = OkB(FALSE)
    /\ e_out.found = FoundNone

KnownOperators ==
    {"is", "contains", "startsWith", "endsWith", "greaterThan", "lesserThan",
     "greaterThanEquals", "lesserThanEquals"}

\* The operator cannot be applied to this attribute and reference value.
WrongType(attr, operator, reference_value) ==
    \/ operator \in {"contains", "startsWith", "endsWith"} /\ attr.type # "String"
    \/ /\ operator \in {"greaterThan", "lesserThan", "greaterThanEquals", "lesserThanEquals"}
       /\ attr.type # "Numeric"
    \/ operator = "is" /\ attr.type = "Numeric" /\ ~parse_f64(reference_value).ok
    \/ operator = "is" /\ attr.type = "Boolean" /\ ~parse_bool(reference_value).ok
    \/ operator \notin KnownOperators

\* Rule j of the segment under test is evaluated: the rules before it matched.
RuleReached(j) ==
    LET segment == e_segments["s1"]
    IN  belong_to_segment(Segment("s1", SubSeq(segment.rules, 1, j - 1)),
                          e_entity.attributes) = OkB(TRUE)

\* C10: when a rule that is evaluated has a present attribute, a reference
\* value the operator cannot be applied to and no matching reference value,
\* the search for the applicable rule fails with an error that names the
\* segment, the attribute and an offending value; it is never "no match".
C10_WrongTypeIsAnError ==
    LET segment == e_segments["s1"]
        attrs == e_entity.attributes
        found == e_out.found
    IN  e_pc = "done" =>
          \A j \in DOMAIN segment.rules :
            LET rule == segment.rules[j]
            IN  (/\ RuleReached(j)
                 /\ rule.attribute_name \in DOMAIN attrs
                 /\ \E k \in DOMAIN rule.values :
                        WrongType(attrs[rule.attribute_name], rule.operator, rule.values[k])
                 /\ \A k \in DOMAIN rule.values :
                        check_operator(attrs[rule.attribute_name], rule.operator,
                                       rule.values[k]) # OpOk(TRUE)) =>
                    /\ ~found.ok
                    /\ found # FoundNone
                    /\ found.err.kind = "SegmentEvaluationFailed"
                    /\ found.err.segment_id = segment.segment_id
                    /\ found.err.attribute_name = rule.attribute_name
                    /\ \E k \in DOMAIN rule.values :
                        /\ found.err.value = rule.values[k]
                        /\ CheckFails(j, k)

\* The second rule of a segment is applied to an attribute of the wrong type
\* after the first one matched, and the search fails naming it.
C10_Witness ==
    /\ e_pc = "done"
    /\ Len(e_segments["s1"].rules) = 2
    /\ RuleReached(2)
    /\ e_segments["s1"].rules[2].attribute_name # e_segments["s1"].rules[1].attribute_name
    /\ CheckFails(2, 1)
    /\ e_out.found.err.kind = "SegmentEvaluationFailed"
    /\ e_out.found.err.attribute_name = e_segments["s1"].rules[2].attribute_name


\* A reference value of rule j of the segment under test satisfies the operator.
HasMatch(j) ==
    LET rule == e_segments["s1"].rules[j]
    IN  /\ rule.attribute_name \in DOMAIN e_entity.attributes
        /\ \E k \in DOMAIN rule.values :
               check_operator(e_entity.attributes[rule.attribute_name],
                              rule.operator, rule.values[k]) = OpOk(TRUE)

\* C11: a rule that is evaluated on a present attribute matches when one of
\* its reference values satisfies the operator, wherever that value stands in
\* the list and whatever the checks of the other values give; the rule makes
\* the segment fail only when no value matches and a check was invalid.
C11_AnyMatchingValueMatches ==
    LET segment == e_segments["s1"]
    IN  e_pc = "done" =>
          \A j \in DOMAIN segment.rules :
            (RuleReached(j)
                /\ segment.rules[j].attribute_name \in DOMAIN e_entity.attributes) =>
                /\ HasMatch(j) =>
                     /\ RuleReached(j + 1)
                     /\ j = Len(segment.rules) => e_out.belongs = OkB(TRUE)
                /\ ~e_out.belongs.ok =>
                     /\ ~HasMatch(j)
                     /\ \E k \in DOMAIN segment.rules[j].values : CheckFails(j, k)


\* The rollout gate of a targeting rule that carries a rollout percentage
\* includes the entity under test.
RuleGateIncludes(rule) ==
    /\ rule.rollout_percentage.some
    /\ should_rollout(IF rule.rollout_percentage.v = String("$default")
                      THEN e_feature.rollout_percentage
                      ELSE rule.rollout_percentage.v.num,
                      e_entity, e_feature.feature_id)

\* The value a targeting rule stands for, given the base value of its owner.
RuleValue(rule, base) == IF rule.value = String("$default") THEN base ELSE rule.value

\* C12: when the first matching targeting rule has the value "$default", a
\* property's get_value resolves to property.value and, if the rule's rollout
\* gate includes the entity, an enabled feature's get_value resolves to
\* feature.enabled_value; a rule with another value resolves to its own value.
C12_DefaultValueResolvesToBase ==
    (e_pc = "done" /\ e_out.found.ok /\ e_out.found.some) =>
        /\ e_out.pvalue = Value("Numeric", RuleValue(e_out.found.rule, e_property.value))
        /\ (e_feature.enabled /\ RuleGateIncludes(e_out.found.rule)) =>
              e_out.value =
                  Value("Numeric", RuleValue(e_out.found.rule, e_feature.enabled_value))

C12_Witness ==
    /\ e_pc = "done"
    /\ e_out.found.ok /\ e_out.found.some
    /\ e_out.found.rule.value = String("$default")
    /\ RuleGateIncludes(e_out.found.rule)
    /\ e_out.value = Value("Numeric", Number(-42))
    /\ e_out.pvalue = Value("Numeric", Number(7))


\* The bucket of the entity under test for the feature under test.
Bucket == random_value(hash(e_entity.id, e_feature.feature_id))

\* C13: when the first matching rule's rollout_percentage is "$default", the
\* feature's get_value is the rule's value (enabled_value for a "$default"
\* value) iff feature.rollout_percentage is 100 or the entity's bucket is
\* below it, and disabled_value otherwise.
C13_DefaultRolloutUsesFeaturePercentage ==
    (/\ e_pc = "done"
     /\ e_out.found.ok /\ e_out.found.some
     /\ e_out.found.rule.rollout_percentage = Some(String("$default"))) =>
        e_out.value =
            Value("Numeric",
                  IF e_feature.rollout_percentage = 100
                        \/ Bucket < e_feature.rollout_percentage
                  THEN RuleValue(e_out.found.rule, e_feature.enabled_value)
                  ELSE e_feature.disabled_value)

\* The bucket decides: 29 is below 50 for a2:f1, and the rule's value is served.
C13_Witness ==
    /\ e_pc = "done"
    /\ e_out.found.ok /\ e_out.found.some
    /\ e_out.found.rule.rollout_percentage = Some(String("$default"))
    /\ e_feature.rollout_percentage = 50
    /\ Bucket < 50
    /\ e_out.value = Value("Numeric", Number(-48))


\* C14: when the first matching rule of an enabled feature has no
\* rollout_percentage, get_value gates with feature.rollout_percentage and
\* returns a value as in the "$default" case; it does not abort.
C14_AbsentRolloutGatesLikeDefault ==
    (/\ e_pc = "done"
     /\ e_out.found.ok /\ e_out.found.some
     /\ e_out.found.rule.rollout_percentage = None) =>
        e_out.value =
            Value("Numeric",
                  IF e_feature.rollout_percentage = 100
                        \/ Bucket < e_feature.rollout_percentage
                  THEN RuleValue(e_out.found.rule, e_feature.enabled_value)
                  ELSE e_feature.disabled_value)


\* The declared kind that a resolved value has the runtime type of.
KindOf(v) ==
    CASE v.kind = "Number" -> "Numeric"
      [] v.kind = "Bool" -> "Boolean"
      [] v.kind = "String" -> "String"

\* What get_value owes for a resolved value and a declared kind.
Coerced(kind, resolved, out) ==
    resolved.status = "ok" =>
        IF KindOf(resolved.value) = kind
        THEN out = Value(kind, resolved.value)
        ELSE out = ValueErr("err", ProtocolError)

\* C17: when the resolved value's type disagrees with the declared kind,
\* get_value returns a ProtocolError and never a Value of the declared kind
\* around the mismatched data, for FeatureSnapshot, PropertySnapshot and the
\* client::feature::Feature handle.
C17_KindMismatchIsProtocolError ==
    e_pc = "done" =>
        /\ Coerced(e_feature.kind,
                   evaluate_feature_for_entity(e_feature, e_segments, e_entity),
                   e_out.value)
        /\ Coerced(e_property.kind,
                   evaluate_property_for_entity(e_property, e_segments, e_entity),
                   e_out.pvalue)
        /\ Coerced(e_feature.kind,
                   evaluate_feature_for_entity(e_feature, e_segments, e_entity),
                   e_out.hvalue)


\* C15: should_rollout(100, ..) is true and should_rollout(0, ..) is false for
\* every entity id and feature id, so an enabled feature for which no
\* targeting rule applies returns enabled_value at rollout_percentage 100 and
\* disabled_value at rollout_percentage 0.
C15_RolloutExtremes ==
    e_pc = "done" =>
        /\ should_rollout(100, e_entity, e_feature.feature_id)
        /\ ~should_rollout(0, e_entity, e_feature.feature_id)
        /\ (e_feature.enabled /\ e_out.found.ok /\ ~e_out.found.some) =>
              /\ e_feature.rollout_percentage = 100 =>
                    e_out.value = Value("Numeric", e_feature.enabled_value)
              /\ e_feature.rollout_percentage = 0 =>
                    e_out.value = Value("Numeric", e_feature.disabled_value)

\* The entity whose tag hashes to 2^32 - 1 gets enabled_value at 100, with a
\* rule that does not apply to it.
C15_Witness ==
    /\ e_pc = "done"
    /\ e_entity.id = "u5147482946" /\ e_entity.attributes # << >>
    /\ e_feature.segment_rules # << >>
    /\ e_out.found.ok /\ ~e_out.found.some
    /\ e_feature.rollout_percentage = 100
    /\ e_out.value = Value("Numeric", Number(-42))

\* floor(hash / 2^32 * 100) for a hash held as two 16-bit halves.
HundredthsOfRange(h) == (100 * h.hi + ((100 * h.lo) \div Half)) \div Half

\* C16: random_value is a bucket b with 0 <= b < 100, never 100, for every
\* hash value up to 2^32 - 1, and it equals floor(hash / 2^32 * 100).
C16_BucketBelowHundred ==
    e_pc = "done" =>
        /\ e_out.bucket \in 0..99
        /\ e_out.bucket = HundredthsOfRange(hash(e_entity.id, e_feature.feature_id))


\* What the targeting rule at index i of the feature gives on its own.
Outcome(i) ==
    targeting_rule_applies_to_entity(e_segments, e_feature.segment_rules[i], e_entity)

\* The rule at index i is evaluated before the rule at index j: a smaller
\* order, or the same order and an earlier place in the list.
EvaluatedBefore(i, j) ==
    LET rules == e_feature.segment_rules
    IN  \/ rules[i].order < rules[j].order
        \/ rules[i].order = rules[j].order /\ i < j

\* The rule at index d fails or matches, and every rule before it does neither.
Decides(d) ==
    /\ ~Outcome(d).ok \/ Outcome(d).b
    /\ \A i \in DOMAIN e_feature.segment_rules :
          EvaluatedBefore(i, d) => Outcome(i).ok /\ ~Outcome(i).b

\* C27: the rules are evaluated in ascending order and the search stops at the
\* first rule that fails or matches.  When that rule fails, its error is
\* returned, naming a segment id of that rule, even if a later rule matches;
\* when it matches, it is the rule found, even if a later rule would fail.
C27_StopsAtFirstErrorOrMatch ==
    e_pc = "done" =>
        LET rules == e_feature.segment_rules
        IN  /\ \A d \in DOMAIN rules :
                  Decides(d) =>
                      /\ e_out.found = (IF Outcome(d).ok THEN FoundRule(rules[d])
                                        ELSE FoundErr(Outcome(d).err))
                      /\ ~Outcome(d).ok =>
                            \E g \in DOMAIN rules[d].rules :
                                \E k \in DOMAIN rules[d].rules[g].segments :
                                    rules[d].rules[g].segments[k] = e_out.found.err.segment_id
            /\ (\A d \in DOMAIN rules : ~Decides(d)) => e_out.found = FoundNone

\* The rule of order 0 names an unknown segment and comes second in the list,
\* the rule of order 1 matches: the error of the former is returned.
C27_Witness ==
    /\ e_pc = "done"
    /\ Len(e_feature.segment_rules) = 2
    /\ e_feature.segment_rules[1].order = 1 /\ Outcome(1) = OkB(TRUE)
    /\ e_feature.segment_rules[2].order = 0
    /\ e_out.found = FoundErr(SegmentIdNotFound("s9"))


\* C28: for an enabled feature without targeting rules, or an entity without
\* attributes, get_value is enabled_value iff rollout_percentage is 100 or the
\* entity's bucket is below it, and disabled_value otherwise, whatever the
\* feature's rules are; at 50 percent a bucket of 68 gives disabled_value and
\* a bucket of 29 gives enabled_value.
C28_NoRulesOrNoAttributesUsesFeatureRollout ==
    (/\ e_pc = "done"
     /\ e_feature.enabled
     /\ e_feature.segment_rules = << >> \/ DOMAIN e_entity.attributes = {}) =>
        /\ e_out.value =
              Value("Numeric",
                    IF e_feature.rollout_percentage = 100
                          \/ Bucket < e_feature.rollout_percentage
                    THEN e_feature.enabled_value
                    ELSE e_feature.disabled_value)
        /\ (e_feature.rollout_percentage = 50 /\ Bucket = 68) =>
              e_out.value = Value("Numeric", Number(2))
        /\ (e_feature.rollout_percentage = 50 /\ Bucket = 29) =>
              e_out.value = Value("Numeric", Number(-42))

\* An entity without attributes in bucket 68, a feature at 50 percent whose
\* rules name an unknown segment and lack a group: disabled_value is returned.
C28_Witness ==
    /\ e_pc = "done"
    /\ DOMAIN e_entity.attributes = {}
    /\ e_feature.rollout_percentage = 50 /\ Bucket = 68
    /\ Len(e_feature.segment_rules) = 2
    /\ e_feature.segment_rules[1].rules = <<Segments(<<"s9">>)>>
    /\ e_feature.segment_rules[2].rules = << >>
    /\ e_out.value = Value("Numeric", Number(2))


\* C29: when the gate of the first matching rule excludes the entity,
\* get_value is the feature's disabled_value, whatever a later matching rule
\* or the feature's own gate would give; when no rule matches, the feature's
\* gate decides between enabled_value and disabled_value.
C29_ExcludedByFirstMatchGivesDisabledValue ==
    (e_pc = "done" /\ e_feature.enabled /\ e_out.found.ok) =>
        /\ (/\ e_feature.segment_rules # << >>
            /\ DOMAIN e_entity.attributes # {}
            /\ e_out.found.some
            /\ e_out.found.rule.rollout_percentage.some
            /\ ~RuleGateIncludes(e_out.found.rule)) =>
                /\ e_out.value = Value("Numeric", e_feature.disabled_value)
                /\ e_out.hvalue = Value("Numeric", e_feature.disabled_value)
        /\ ~e_out.found.some =>
                e_out.value =
                    Value("Numeric",
                          IF e_feature.rollout_percentage = 100
                                \/ Bucket < e_feature.rollout_percentage
                          THEN e_feature.enabled_value
                          ELSE e_feature.disabled_value)

\* Two rules match; the gate of the first, at 50 percent, excludes the entity,
\* the second and the feature are at 100 percent: disabled_value is returned.
C29_Witness ==
    /\ e_pc = "done"
    /\ Len(e_feature.segment_rules) = 2
    /\ Outcome(1) = OkB(TRUE) /\ Outcome(2) = OkB(TRUE)
    /\ e_feature.segment_rules[1].rollout_percentage = Some(Number(50))
    /\ e_feature.segment_rules[2].rollout_percentage = Some(Number(100))
    /\ e_feature.rollout_percentage = 100
    /\ Bucket >= 50
    /\ e_out.value = Value("Numeric", e_feature.disabled_value)


(***************************************************************************)
(* Properties of the client.                                               *)
(***************************************************************************)
SnapshotA == snapshot_new(EnvironmentId, DocumentA).snapshot
SnapshotB == snapshot_new(EnvironmentId, DocumentB).snapshot

\* A whole read of the store on one snapshot.
read_on(snap, op) ==
    CASE op.name = "get_feature_ids" -> Returned("ok", DOMAIN snap.features, NoHandle)
      [] op.name = "get_property_ids" -> Returned("ok", DOMAIN snap.properties, NoHandle)
      [] op.name = "get_feature" -> get_feature_on(snap, op.id)
      [] op.name = "get_property" -> get_property_on(snap, op.id)

\* A read of the store returns in this step.
ReadReturns == c_pc \in {"locked", "found"} /\ c_pc' = "idle"

\* C3: a handle returned by get_feature / get_property is detached from the
\* store.  A replacement of the snapshot leaves the handle the caller holds
\* as it is, the values the caller got from it for each entity stay the
\* values get_value returns on it, and a handle obtained by a later call is
\* the view of the snapshot that is current at that call.
C3_HandlesAreDetached ==
    [][/\ snapshot' # snapshot =>
            /\ handle' = handle
            /\ values_of(handle') = values_of(handle)
       /\ observed'.some => observed'.values = values_of(handle')
       /\ (ReadReturns /\ c_result'.status = "ok"
              /\ c_op.name \in {"get_feature", "get_property"}) =>
            /\ handle' = c_result'.handle
            /\ handle' = read_on(snapshot', c_op).handle]_vars

\* The caller holds a handle of f1 taken from the first snapshot and has its
\* values, the store holds the second snapshot, in which f1 evaluates to
\* other values.
C3_Witness ==
    /\ observed.some
    /\ handle = get_feature_on(SnapshotA, "f1").handle
    /\ snapshot = SnapshotB
    /\ values_of(get_feature_on(snapshot, "f1").handle) # observed.values

\* C4: every read of the store returns data of one snapshot.  The snapshot
\* is not replaced while a read holds the guard, and what the read returns
\* is the whole read on the snapshot the store holds when it returns, which
\* is the last one installed.
C4_ReadsSeeOneSnapshot ==
    [][/\ c_pc \in {"locked", "found"} => snapshot' = snapshot
       /\ ReadReturns => c_result' = read_on(snapshot', c_op)]_vars

\* get_feature has returned f1 of the second snapshot, after its
\* installation, while the thread waits to install the first one again.
C4_Witness ==
    /\ c_pc = "idle"
    /\ c_op = [name |-> "get_feature", id |-> "f1"]
    /\ c_result = get_feature_on(SnapshotB, "f1")
    /\ c_result.status = "ok"
    /\ w_pc = "lock"
    /\ config_result.ok
    /\ config_result.snapshot = SnapshotA

\* The fetch fails: a transport error, or no environment with the id.
FetchFails(response) ==
    \/ response.transport_error
    \/ \A i \in DOMAIN response.configuration.environments :
           response.configuration.environments[i].environment_id # EnvironmentId

Range(s) == {s[i] : i \in DOMAIN s}

\* The snapshot holds the features and properties of the document's
\* environment and the segments of the document, under their ids, and
\* nothing else.
HoldsDocument(snap, configuration) ==
    \E i \in DOMAIN configuration.environments :
        /\ configuration.environments[i].environment_id = EnvironmentId
        /\ \A j \in 1..(i - 1) : configuration.environments[j].environment_id # EnvironmentId
        /\ Range(snap.features) = Range(configuration.environments[i].features)
        /\ Range(snap.properties) = Range(configuration.environments[i].properties)
        /\ Range(snap.segments) = Range(configuration.segments)
        /\ \A id \in DOMAIN snap.features : snap.features[id].feature_id = id
        /\ \A id \in DOMAIN snap.properties : snap.properties[id].property_id = id
        /\ \A id \in DOMAIN snap.segments : snap.segments[id].segment_id = id

\* The thread handles the result of a fetch in this step.
HandlesResult == w_pc = "match" /\ w_pc' # "match"

\* C5: a refresh is all-or-nothing.  When the thread handles the result of
\* a fetch, the store holds exactly the fetched document's content for the
\* environment if the fetch succeeded, and exactly what it held before if
\* the fetch or the construction of the snapshot failed; no other step of
\* the thread or of a caller changes the store.
C5_RefreshIsAllOrNothing ==
    [][/\ HandlesResult =>
            IF FetchFails(fetched) THEN snapshot' = snapshot
            ELSE HoldsDocument(snapshot', fetched.configuration)
       /\ snapshot' # snapshot => HandlesResult /\ ~FetchFails(fetched)]_vars

\* The second document was installed, and a later refresh that found no
\* environment with the id has left it in the store.
C5_Witness ==
    /\ w_pc = "sleep"
    /\ fetched = Response(DocumentC)
    /\ config_result.err = "EnvironmentNotFound"
    /\ printed = "Error getting config snapshot"
    /\ snapshot = SnapshotB
    /\ snapshot # SnapshotA

Exited == {"exit_dropped", "exit_closed", "exit_error"}

C7_WorkerEndsOnCloseOrError ==
    [][/\ (w_pc = "read" /\ reads' = reads + 1
              /\ printed' \in {"Connection closed by the server.", "Error"}) =>
            w_pc' \in {"exit_closed", "exit_error"}
       /\ w_pc \in Exited =>
            /\ UNCHANGED <<w_pc, snapshot, reads, fetched, config_result>>
            /\ lock # "worker"
            /\ ReadReturns => c_result' = read_on(snapshot, c_op)
            /\ observed'.some => observed'.values = values_of(handle')]_vars

\* The thread has ended on a close message after the second document was
\* installed; get_feature has returned f1 of that document and the caller
\* has evaluated it.
C7_Witness ==
    /\ w_pc = "exit_closed"
    /\ printed = "Connection closed by the server."
    /\ snapshot = SnapshotB
    /\ c_pc = "idle"
    /\ c_result = get_feature_on(snapshot, "f1")
    /\ c_result.status = "ok"
    /\ handle = c_result.handle
    /\ observed.some

\* C8: once the client is dropped the thread starts no further read of the
\* socket, and ends when it is at the top of its loop.
C8_WorkerEndsAfterDrop ==
    [][dropped =>
            /\ ~(w_pc # "read" /\ w_pc' = "read")
            /\ w_pc = "top" => w_pc' \in {"top", "exit_dropped"}
            /\ w_pc = "exit_dropped" => w_pc' = "exit_dropped"]_vars

\* The client is dropped and the thread, which was in a read, handles the
\* change signal the read returned: it is about to install the document.
C8_Witness ==
    /\ dropped
    /\ w_pc = "match"
    /\ reads = 1
    /\ config_result.ok
    /\ config_result.snapshot = SnapshotB
    /\ snapshot = SnapshotA

\* The segment ids that the groups of the targeting rules refer to.
ReferencedIds(rules) ==
    {id \in {"s1", "s2", "s3", "s9"} :
        \E i \in DOMAIN rules : \E j \in DOMAIN rules[i].rules :
            \E k \in DOMAIN rules[i].rules[j].segments :
                rules[i].rules[j].segments[k] = id}

\* The targeting rules of the resource that the running method names.
RulesOf(snap, op) ==
    IF op.name = "get_feature" THEN snap.features[op.id].segment_rules
    ELSE snap.properties[op.id].segment_rules

\* get_feature / get_property returns after its integrity check.
CollectReturns == c_pc = "found" /\ c_pc' = "idle"

\* C18: get_feature / get_property on an existing resource returns
\* MissingSegments exactly when a segment id that its targeting rules refer to
\* is absent from the snapshot's segment map, whatever the other resources
\* refer to; otherwise the handle holds every segment referred to, and
\* get_value on a handle never fails with SegmentIdNotFound.
C18_MissingSegmentsExactly ==
    [][/\ CollectReturns =>
            LET ids == ReferencedIds(RulesOf(snapshot, c_op))
            IN  /\ c_result'.status \in {"ok", "MissingSegments"}
                /\ c_result'.status = "MissingSegments" <=>
                       \E id \in ids : id \notin DOMAIN snapshot.segments
                /\ c_result'.status = "MissingSegments" => c_result'.ids = {c_op.id}
                /\ c_result'.status = "ok" =>
                       /\ handle' = c_result'.handle
                       /\ ids \subseteq DOMAIN handle'.segments
       /\ observed'.some =>
            \A entity \in DOMAIN observed'.values :
                observed'.values[entity].err.kind # "SegmentIdNotFound"]_vars

\* f1 was looked up and evaluated with its segment, and the lookup of f2,
\* which refers to a segment the snapshot lacks, has then failed.
C18_Witness ==
    /\ c_pc = "idle"
    /\ c_op = [name |-> "get_feature", id |-> "f2"]
    /\ c_result = Returned("MissingSegments", {"f2"}, NoHandle)
    /\ "s9" \notin DOMAIN snapshot.segments
    /\ handle.what = "feature" /\ handle.feature.feature_id = "f1"
    /\ DOMAIN handle.segments = {"s1"}
    /\ observed.some

\* The running method finds the resource it names in the store.
Exists(snap, op) ==
    IF op.name = "get_feature" THEN op.id \in DOMAIN snap.features
    ELSE op.id \in DOMAIN snap.properties

\* get_feature / get_property does its lookup in this step.
LooksUp ==
    /\ c_pc = "locked" /\ c_pc' # "locked"
    /\ c_op.name \in {"get_feature", "get_property"}

\* C19: a lookup of an id the snapshot does not hold returns FeatureNotFound
\* (PropertyNotFound for get_property) naming the id, releases the store and
\* leaves the snapshot and the caller's handle as they were; in every state,
\* also after such a failure, a lookup of an id the snapshot holds finds it.
C19_UnknownIdIsNotFound ==
    [][LooksUp =>
          /\ snapshot' = snapshot
          /\ IF Exists(snapshot, c_op)
             THEN /\ c_pc' = "found"
                  /\ c_copy'.what = (IF c_op.name = "get_feature" THEN "feature" ELSE "property")
                  /\ c_result' = NoResult
             ELSE /\ c_pc' = "idle"
                  /\ c_result' =
                        Returned(IF c_op.name = "get_feature" THEN "FeatureNotFound"
                                 ELSE "PropertyNotFound",
                                 {c_op.id}, NoHandle)
                  /\ lock' = "free"
                  /\ handle' = handle]_vars

\* f3 was not found in the second snapshot, which holds f1, f2 and p1, and
\* the handle of an earlier lookup of f1 is still in the caller's hands.
C19_Witness ==
    /\ c_pc = "idle"
    /\ c_result = Returned("FeatureNotFound", {"f3"}, NoHandle)
    /\ snapshot = SnapshotB
    /\ lock = "free"
    /\ handle.what = "feature" /\ handle.feature.feature_id = "f1"

\* get_feature_proxy / get_property_proxy returns in this step.
ProxyReturns ==
    /\ c_op'.name \in {"get_feature_proxy", "get_property_proxy"}
    /\ <<c_op', c_result', handle'>> # <<c_op, c_result, handle>>

\* C20: get_feature_proxy(id) returns Ok with a handle if the snapshot holds
\* a feature with the id and Err if it does not, and get_property_proxy(id)
\* returns Err when the snapshot holds no property with the id.
C20_ProxyOnlyForExistingId ==
    [][ProxyReturns =>
          IF c_op'.name = "get_feature_proxy"
          THEN c_result'.status = "ok" <=> c_op'.id \in DOMAIN snapshot.features
          ELSE c_op'.id \notin DOMAIN snapshot.properties => c_result'.status # "ok"]_vars

\* C21: an accessor called on a proxy whose id the current snapshot does not
\* hold does not panic, so the caller never fails with the guard held, the
\* mutex is never poisoned and the background thread's next lock succeeds.
C21_AccessorsNeverPanic ==
    /\ c_pc # "panicked"
    /\ lock # "poisoned"
    /\ w_pc # "exit_panic"
    /\ observed.some =>
          \A a \in DOMAIN observed.values : observed.values[a].status # "panic"

\* The caller is in the statement that calls
\* find_applicable_segment_rule_for_entity for a proxy.
EvaluatingRules == c_pc \in {"holding", "deadlocked"}

\* The background thread is in socket.read() or in the fetch.
InNetworkCall == w_pc \in {"read", "fetch"}

\* C22: the guard is never held by a thread that is in a network call or
\* that evaluates targeting rules for an entity; the thread holds it only for
\* the swap, a caller only while it copies data out of the snapshot.
C22_GuardNotHeldAcrossEvaluation ==
    /\ lock = "worker" => ~InNetworkCall /\ w_pc = "match"
    /\ lock = "caller" => ~EvaluatingRules

\* C25: a call of get_current_value on a proxy never locks the store while
\* the calling thread holds its guard, so the call neither blocks for ever
\* nor aborts on the second lock.
C25_NoRelockWhileHolding ==
    [][/\ c_pc' # "deadlocked"
       /\ ~(c_pc = "holding" /\ c_pc' = "panicked")]_vars

\* The snapshots the store can hold while the caller works with proxies.
ProxySnapshots ==
    {snapshot_new(EnvironmentId, d).snapshot : d \in {DocumentA, DocumentB, DocumentD}}

\* The evaluations of the proxy's feature for the entity, one per snapshot.
EvaluationsOf(proxy) ==
    {evaluate_feature_for_entity(s.features[proxy.feature.feature_id], s.segments,
                                 ProxyEntity) :
        s \in {t \in ProxySnapshots : proxy_has_feature(t, proxy)}}

\* get_current_value returns a value in this step.
CurrentValueReturns ==
    /\ c_pc = "disabled" /\ c_pc' = "idle"
    /\ observed'.some

\* C26: a call of FeatureProxy::get_current_value evaluates against one
\* snapshot: what it returns is the evaluation of the feature in a snapshot,
\* the one before or the one after a replacement during the call.
C26_CurrentValueFromOneSnapshot ==
    [][CurrentValueReturns =>
          observed'.values["get_current_value"] \in EvaluationsOf(handle)]_vars

\* C23: the snapshot of the store changes only when the background thread
\* installs the result of a successful fetch; no step of a lookup, successful
\* or not, and no evaluation on a handle changes it.
C23_OnlyTheWorkerWrites ==
    [][/\ snapshot' # snapshot =>
            /\ w_pc = "match" /\ w_pc' = "sleep"
            /\ lock = "worker"
            /\ config_result.ok
            /\ snapshot' = config_result.snapshot
            /\ callervars' = callervars
       /\ callervars' # callervars => snapshot' = snapshot
       /\ (w_pc = "match" /\ w_pc' = "sleep" /\ ~config_result.ok) =>
            snapshot' = snapshot]_vars

\* A lookup has failed and a handle was evaluated, on the second snapshot.
C23_Witness ==
    /\ c_pc = "idle"
    /\ c_result.status = "MissingSegments"
    /\ observed.some
    /\ snapshot = SnapshotB

\* The lines the thread prints for a test message and for a binary, ping,
\* pong or frame message.
HeartbeatLines == {"Test message received.", "binary", "ping", "pong", "frame"}

\* The thread prints the line of a heartbeat in this step.
PrintsHeartbeat == w_pc = "read" /\ printed' # printed /\ printed' \in HeartbeatLines

\* C24: a heartbeat triggers no fetch, leaves the snapshot as it is and does
\* not stop the thread, which goes on to sleep and to the next read; only a
\* message that prints nothing, a change, leads to a fetch.
C24_HeartbeatsAreIgnored ==
    [][/\ PrintsHeartbeat =>
            /\ w_pc' = "sleep"
            /\ UNCHANGED <<snapshot, fetched, config_result, lock>>
       /\ (w_pc = "read" /\ w_pc' = "fetch") => printed' = printed
       /\ printed' \in HeartbeatLines =>
            w_pc' \notin {"exit_closed", "exit_error", "exit_panic"}]_vars

\* After a heartbeat, the change that followed was fetched and installed.
C24_Witness ==
    /\ printed \in HeartbeatLines
    /\ reads = MaxReads
    /\ fetched = Response(DocumentB)
    /\ snapshot = SnapshotB
    /\ w_pc = "sleep"

\* The step that ends the statement in which a property proxy evaluates its
\* targeting rules.
PropertyEvaluationEnds ==
    /\ handle.what = "property_proxy"
    /\ handle.property.property_id \in DOMAIN snapshot.properties
    /\ c_pc = "holding" /\ c_pc' # "holding"

\* C30: the evaluation of a property for an entity returns property.value
\* when there is no targeting rule, no attribute, no matching rule or a first
\* matching rule with the value "$default", and the value of the first
\* matching rule otherwise, whatever the rules' rollout percentages are.
C30_PropertyEvaluationReturnsResolvedValue ==
    [][PropertyEvaluationEnds =>
          /\ c_pc' = "idle"
          /\ observed' =
                CurrentValue(evaluate_property_for_entity(
                    snapshot.properties[handle.property.property_id],
                    snapshot.segments, ProxyEntity))]_vars

====
